---------------------------- MODULE Spec2Model ----------------------------
(***************************************************************************)
(* Model of the HSK vocabulary quiz (src/pages/01_Comprehension.py):       *)
(* the text and pinyin normalizers, the synonym resolver, the question     *)
(* pool builder, and the quiz session kept in st.session_state and driven  *)
(* by the page's form, buttons and configuration widgets; and of the user  *)
(* accounts (src/repo.py, src/utils/auth_ui.py): the users table, the      *)
(* sign-up form and the stored question count preference.                  *)
(*                                                                         *)
(* A Python str is a sequence of characters.  A character is a TLA+ string *)
(* naming it: ASCII characters stand for themselves, the others carry a    *)
(* name ("e_acute" is U+00E9, "i_caron" is U+01D0, "rsquo" is U+2019,      *)
(* "LF" is the newline, "comb_acute" is the combining mark U+0301,         *)
(* "han_1", "han_2", ... are CJK ideographs).  Python's None is the        *)
(* one-element sequence <<"None">>, which differs from every str since     *)
(* "None" is no character.                                                 *)
(***************************************************************************)
EXTENDS Integers, Sequences, FiniteSets, TLC

VARIABLES
    session_state,  \* st.session_state of the comprehension page
    widgets,        \* values held by the configuration widgets of main()
    entries,        \* the active rows of the entries table, per quiz key
    submission,     \* argument of the last direct evaluate_answer call
    call,           \* the function call or form submission on record
    outcome,        \* what a build_question_pool or reset_quiz call returned or raised
    users,          \* the rows of the users table, in the order of their ids
    user_settings   \* the user_settings table: the settings of each user id

vars == <<session_state, widgets, entries, submission, call, outcome, users,
          user_settings>>

None == <<"None">>

(***************************************************************************)
(* Characters.                                                             *)
(***************************************************************************)
AsciiLower ==
    {"a", "c", "d", "e", "h", "i", "l", "m", "n", "o", "p", "r", "s", "t", "u", "v", "x"}

AsciiUpper == {"A", "C", "E", "I", "L", "M", "N", "R", "U", "V"}

Digits == {"0", "1", "2", "3", "4", "5", "6", "7", "8", "9"}

\* str.strip() and the regex class \s
Whitespace == {" ", "LF"}

\* unicodedata.category(ch) == "Mn"
CombiningMarks == {"comb_acute", "comb_grave", "comb_caron", "comb_circ", "comb_uml"}

\* Letters of the range U+00C0..U+024F used here: e-acute, E-acute, e-circumflex,
\* i-caron, i-grave, a-caron, u-diaeresis (both cases), u-diaeresis-grave, and
\* U+0149, n preceded by apostrophe
Latin1Ext ==
    {"e_acute", "E_acute", "e_circ", "i_caron", "i_grave", "a_caron",
     "u_uml", "U_uml", "u_uml_grave", "n_apos"}

\* U+02BC, modifier letter apostrophe (category Lm)
ModifierLetters == {"mod_apos"}

Punctuation == {";", ",", "/", ":", "-", "'", "rsquo", "!", "?"}

Ideographs == {"han_1", "han_2", "han_3", "han_4"}

Alphabet ==
    AsciiLower \cup AsciiUpper \cup Digits \cup Whitespace \cup CombiningMarks
        \cup Latin1Ext \cup ModifierLetters \cup Punctuation \cup Ideographs

\* str.lower() on one character
LowerTable ==
    [A |-> "a", C |-> "c", E |-> "e", I |-> "i", L |-> "l", M |-> "m", N |-> "n",
     R |-> "r", U |-> "u", V |-> "v", E_acute |-> "e_acute", U_uml |-> "u_uml"]

Lower(c) == IF c \in DOMAIN LowerTable THEN LowerTable[c] ELSE c

\* unicodedata.normalize("NFD", ch)
DecompTable ==
    [e_acute |-> <<"e", "comb_acute">>,
     E_acute |-> <<"E", "comb_acute">>,
     e_circ |-> <<"e", "comb_circ">>,
     i_caron |-> <<"i", "comb_caron">>,
     i_grave |-> <<"i", "comb_grave">>,
     a_caron |-> <<"a", "comb_caron">>,
     u_uml |-> <<"u", "comb_uml">>,
     U_uml |-> <<"U", "comb_uml">>,
     u_uml_grave |-> <<"u", "comb_uml", "comb_grave">>]

Decompose(c) == IF c \in DOMAIN DecompTable THEN DecompTable[c] ELSE <<c>>

\* unicodedata.normalize("NFKD", ch): the compatibility decomposition of
\* U+0149, and the canonical one of the other characters
DecomposeCompat(c) == IF c = "n_apos" THEN <<"mod_apos", "n">> ELSE Decompose(c)

(***************************************************************************)
(* str methods.                                                            *)
(***************************************************************************)
RECURSIVE Flatten(_)
Flatten(ss) == IF ss = <<>> THEN <<>> ELSE Head(ss) \o Flatten(Tail(ss))

RECURSIVE LStrip(_, _)
LStrip(s, chars) ==
    IF s = <<>> \/ Head(s) \notin chars THEN s ELSE LStrip(Tail(s), chars)

RECURSIVE RStrip(_, _)
RStrip(s, chars) ==
    IF s = <<>> \/ s[Len(s)] \notin chars THEN s
    ELSE RStrip(SubSeq(s, 1, Len(s) - 1), chars)

\* s.strip(chars)
StripChars(s, chars) == RStrip(LStrip(s, chars), chars)

\* s.strip()
Strip(s) == StripChars(s, Whitespace)

\* s.lower()
LowerStr(s) == [i \in 1..Len(s) |-> Lower(s[i])]

\* s.replace(old, new) for a single character old
ReplaceChar(s, old, new) == [i \in 1..Len(s) |-> IF s[i] = old THEN new ELSE s[i]]

\* s.replace(old, new) for a two-character old and a one-character new
RECURSIVE ReplacePair(_, _, _)
ReplacePair(s, old, new) ==
    IF Len(s) < 2 THEN s
    ELSE IF s[1] = old[1] /\ s[2] = old[2]
         THEN <<new>> \o ReplacePair(SubSeq(s, 3, Len(s)), old, new)
         ELSE <<Head(s)>> \o ReplacePair(Tail(s), old, new)

\* re.split("[seps]", s) and s.split(sep): the pieces between separators
RECURSIVE SplitAt(_, _, _)
SplitAt(s, seps, piece) ==
    IF s = <<>> THEN <<piece>>
    ELSE IF Head(s) \in seps THEN <<piece>> \o SplitAt(Tail(s), seps, <<>>)
         ELSE SplitAt(Tail(s), seps, Append(piece, Head(s)))

Split(s, seps) == SplitAt(s, seps, <<>>)

\* re.sub("[chars]+", " ", s): every maximal run of chars becomes one space
RECURSIVE SubRuns(_, _)
SubRuns(s, chars) ==
    IF s = <<>> THEN <<>>
    ELSE IF Head(s) \in chars
         THEN <<" ">> \o SubRuns(LStrip(s, chars), chars)
         ELSE <<Head(s)>> \o SubRuns(Tail(s), chars)

\* "".join(ch for ch in s if unicodedata.category(ch) != "Mn")
DropMarks(s) == SelectSeq(s, LAMBDA c : c \notin CombiningMarks)

\* unicodedata.normalize("NFD", s)
NFD(s) == Flatten([i \in 1..Len(s) |-> Decompose(s[i])])

\* s.lower().startswith("cl:")
StartsWithCl(s) ==
    Len(s) >= 3 /\ Lower(s[1]) = "c" /\ Lower(s[2]) = "l" /\ Lower(s[3]) = ":"

\* set(seq)
Range(s) == {s[i] : i \in 1..Len(s)}

(***************************************************************************)
(* Text normalizer and synonym resolver.                                   *)
(***************************************************************************)
\* NON_WORD_PATTERN = [^a-z0-9]+
NON_WORD_PATTERN == Alphabet \ (AsciiLower \cup Digits)

\* normalize_text_answer without .lower()
normalize_text_answer_keeping_case(value) ==
    LET n1 == NFD(Strip(value))
        n2 == DropMarks(n1)
        n3 == ReplaceChar(n2, "rsquo", "'")
        n4 == ReplaceChar(n3, "-", " ")
        n5 == SubRuns(n4, NON_WORD_PATTERN)
        n6 == ReplaceChar(n5, "'", " ")
    IN  Strip(SubRuns(n6, Whitespace))

\* normalize_text_answer without the closing .strip()
normalize_text_answer_unstripped(value) ==
    LET n1 == NFD(LowerStr(Strip(value)))
        n2 == DropMarks(n1)
        n3 == ReplaceChar(n2, "rsquo", "'")
        n4 == ReplaceChar(n3, "-", " ")
        n5 == SubRuns(n4, NON_WORD_PATTERN)
        n6 == ReplaceChar(n5, "'", " ")
    IN  SubRuns(n6, Whitespace)

normalize_text_answer(value) ==
    LET n1 == NFD(LowerStr(Strip(value)))
        n2 == DropMarks(n1)
        n3 == ReplaceChar(n2, "rsquo", "'")
        n4 == ReplaceChar(n3, "-", " ")
        n5 == SubRuns(n4, NON_WORD_PATTERN)
        n6 == ReplaceChar(n5, "'", " ")
    IN  Strip(SubRuns(n6, Whitespace))

\* the parts one candidate of split_alt_translations contributes
CandidateParts(value, candidate) ==
    LET cleaned == Strip(StripChars(Strip(candidate), {"/"}))
        split == Split(cleaned, {","})
        parts == IF ";" \notin Range(value) /\ "," \in Range(cleaned)
                 THEN [i \in 1..Len(split) |-> Strip(split[i])]
                 ELSE <<cleaned>>
    IN  IF cleaned = <<>> \/ StartsWithCl(cleaned) THEN <<>>
        ELSE SelectSeq(parts, LAMBDA part : part # <<>> /\ ~StartsWithCl(part))

split_alt_translations(value) ==
    IF value = <<>> THEN <<>>
    ELSE LET candidates == Split(value, {";", "LF"})
         IN  Flatten([i \in 1..Len(candidates) |-> CandidateParts(value, candidates[i])])

gather_translation_answers(entry) ==
    SelectSeq(<<entry.translation>> \o split_alt_translations(entry.alt_translations),
              LAMBDA answer : answer # <<>>)

(***************************************************************************)
(* Phonetic normalizer.                                                    *)
(***************************************************************************)
\* PINYIN_SYLLABLE_RE = (?iu)[a-z u-diaeresis v U+00C0-U+024F]+[1-5]? : the
\* letter class (case-insensitive) and the optional tone digit
PinyinLetters == AsciiLower \cup AsciiUpper \cup Latin1Ext

PinyinToneDigits == {"1", "2", "3", "4", "5"}

\* PINYIN_SYLLABLE_RE.finditer(value): leftmost, longest, non-overlapping matches
RECURSIVE SyllableMatches(_)
SyllableMatches(s) ==
    IF s = <<>> THEN <<>>
    ELSE IF Head(s) \notin PinyinLetters THEN SyllableMatches(Tail(s))
    ELSE LET rest == LStrip(s, PinyinLetters)
             letters == Len(s) - Len(rest)
             size == IF rest # <<>> /\ Head(rest) \in PinyinToneDigits
                     THEN letters + 1 ELSE letters
         IN  <<SubSeq(s, 1, size)>> \o SyllableMatches(SubSeq(s, size + 1, Len(s)))

PINYIN_DIACRITIC_MAP ==
    [a_caron |-> <<"a", 3>>,
     e_acute |-> <<"e", 2>>,
     E_acute |-> <<"e", 2>>,
     i_caron |-> <<"i", 3>>,
     i_grave |-> <<"i", 4>>,
     u_uml_grave |-> <<"v", 4>>]

\* int(char) for a decimal digit
DigitValue(char) ==
    CASE char = "0" -> 0 [] char = "1" -> 1 [] char = "2" -> 2 [] char = "3" -> 3
      [] char = "4" -> 4 [] char = "5" -> 5 [] char = "6" -> 6 [] char = "7" -> 7
      [] char = "8" -> 8 [] char = "9" -> 9

\* the loop of ScanToken in which a tone digit yields to the tone of a toned
\* vowel already read
RECURSIVE ScanTokenVowelToneFirst(_, _, _)
ScanTokenVowelToneFirst(token, base_chars, tone) ==
    IF token = <<>> THEN <<base_chars, tone>>
    ELSE LET char == Head(token)
             next == Tail(token)
         IN  IF char \in {"'", "rsquo"} THEN ScanTokenVowelToneFirst(next, base_chars, tone)
             ELSE IF char \in Digits
                  THEN ScanTokenVowelToneFirst(next, base_chars,
                           IF 1 <= DigitValue(char) /\ DigitValue(char) <= 4 /\ tone = 0
                           THEN DigitValue(char) ELSE tone)
             ELSE IF char \in DOMAIN PINYIN_DIACRITIC_MAP
                  THEN ScanTokenVowelToneFirst(next,
                           Append(base_chars, PINYIN_DIACRITIC_MAP[char][1]),
                           PINYIN_DIACRITIC_MAP[char][2])
             ELSE IF char \in {"u_uml", "U_uml"}
                  THEN ScanTokenVowelToneFirst(next, Append(base_chars, "v"), tone)
             ELSE ScanTokenVowelToneFirst(
                      next, base_chars \o LowerStr(DropMarks(DecomposeCompat(char))), tone)

\* the loop over the characters of one token: <<base, tone>> at its end
RECURSIVE ScanToken(_, _, _)
ScanToken(token, base_chars, tone) ==
    IF token = <<>> THEN <<base_chars, tone>>
    ELSE LET char == Head(token)
             next == Tail(token)
         IN  IF char \in {"'", "rsquo"} THEN ScanToken(next, base_chars, tone)
             ELSE IF char \in Digits
                  THEN ScanToken(next, base_chars,
                                 IF 1 <= DigitValue(char) /\ DigitValue(char) <= 4
                                 THEN DigitValue(char) ELSE tone)
             ELSE IF char \in DOMAIN PINYIN_DIACRITIC_MAP
                  THEN ScanToken(next, Append(base_chars, PINYIN_DIACRITIC_MAP[char][1]),
                                 PINYIN_DIACRITIC_MAP[char][2])
             ELSE IF char \in {"u_uml", "U_uml"}
                  THEN ScanToken(next, Append(base_chars, "v"), tone)
             ELSE ScanToken(next, base_chars \o LowerStr(DropMarks(DecomposeCompat(char))), tone)

\* raw_token with "U:" -> U-diaeresis, "u:" -> u-diaeresis, "V" and "v" likewise
PinyinToken(raw_token) ==
    ReplaceChar(
        ReplaceChar(
            ReplacePair(ReplacePair(raw_token, <<"U", ":">>, "U_uml"),
                        <<"u", ":">>, "u_uml"),
            "V", "U_uml"),
        "v", "u_uml")

normalize_pinyin_value(value) ==
    IF value = <<>> THEN <<>>
    ELSE LET matches == SyllableMatches(value)
             scanned == [i \in 1..Len(matches) |->
                            ScanToken(PinyinToken(matches[i]), <<>>, 0)]
         IN  SelectSeq(scanned, LAMBDA token : token[1] # <<>>)

\* strip_pinyin_tones that keeps the tone of each token
strip_pinyin_tones_keeping_tones(tokens) == [i \in 1..Len(tokens) |-> tokens[i]]

strip_pinyin_tones(tokens) == [i \in 1..Len(tokens) |-> tokens[i][1]]

(***************************************************************************)
(* random.Random(seed).  The generator's state rng is a natural number     *)
(* whose digits are the draws still to come: randbelow(n) yields rng % n   *)
(* and leaves rng \div n.  The seed fixes the stream; seed=None (seeding   *)
(* from the operating system) is any seed.  sample and shuffle are the     *)
(* loops of CPython's random.py over randbelow.                            *)
(***************************************************************************)
Min(a, b) == IF a < b THEN a ELSE b

Max(a, b) == IF a > b THEN a ELSE b

Random(seed) == seed

\* for i in range(k): j = randbelow(n - i); result[i] = pool[j]; pool[j] = pool[n - i - 1]
RECURSIVE SampleLoop(_, _, _, _)
SampleLoop(pool, k, rng, result) ==
    IF k = 0 THEN [value |-> result, rng |-> rng]
    ELSE LET n == Len(pool)
             j == (rng % n) + 1
         IN  SampleLoop(SubSeq([pool EXCEPT ![j] = pool[n]], 1, n - 1), k - 1,
                        rng \div n, Append(result, pool[j]))

\* a sample that leaves the chosen element in the pool: each draw is made from
\* the whole population
RECURSIVE SampleLoopWithReplacement(_, _, _, _)
SampleLoopWithReplacement(pool, k, rng, result) ==
    IF k = 0 THEN [value |-> result, rng |-> rng]
    ELSE SampleLoopWithReplacement(pool, k - 1, rng \div Len(pool),
                                   Append(result, pool[(rng % Len(pool)) + 1]))

RngSampleWithReplacement(population, k, rng) ==
    SampleLoopWithReplacement(population, k, rng, <<>>)

\* rng.sample(population, k) for 0 <= k <= len(population): the sample and the
\* generator's state after it
RngSample(population, k, rng) == SampleLoop(population, k, rng, <<>>)

\* for i in reversed(range(1, len(x))): j = randbelow(i + 1); x[i], x[j] = x[j], x[i]
RECURSIVE ShuffleLoop(_, _, _)
ShuffleLoop(x, i, rng) ==
    IF i < 2 THEN [value |-> x, rng |-> rng]
    ELSE LET j == (rng % i) + 1
         IN  ShuffleLoop([x EXCEPT ![i] = x[j], ![j] = x[i]], i - 1, rng \div i)

\* rng.shuffle(x)
RngShuffle(x, rng) == ShuffleLoop(x, Len(x), rng)

(***************************************************************************)
(* Question pool builder.                                                  *)
(***************************************************************************)
QuestionTypes ==
    {"hanzi_to_translation_input", "hanzi_to_pinyin_input",
     "translation_to_hanzi_mcq", "hanzi_to_translation_mcq"}

DEFAULT_QUESTION_TYPE == "hanzi_to_translation_mcq"

DEFAULT_PINYIN_VARIANT == "with_tones"

PinyinVariants == {"with_tones", "without_tones"}

\* default of build_question_pool's num_choices
DefaultNumChoices == 4

\* a function call's result: what it raised, if anything, and the value returned
NoException == "no exception"

Returned(value) == [raised |-> NoException, value |-> value]

Raised(exception) == [raised |-> exception, value |-> None]

\* the question dictionary before the mode-specific keys are set
BaseQuestion(entry, question_type) ==
    [hanzi |-> entry.hanzi, pinyin |-> entry.pinyin,
     translation |-> entry.translation, alt_translations |-> entry.alt_translations,
     type |-> question_type]

\* McqChoices without the right value appended
McqChoicesWithoutCorrect(values, correct, num_choices, rng) ==
    LET incorrect_pool == SelectSeq(values, LAMBDA v : v # correct)
        choice_count == Min(num_choices - 1, Len(incorrect_pool))
        incorrect_choices == IF choice_count > 0
                             THEN RngSample(incorrect_pool, choice_count, rng)
                             ELSE [value |-> <<>>, rng |-> rng]
    IN  RngShuffle(incorrect_choices.value, incorrect_choices.rng)

\* McqChoices with num_choices wrong values asked for instead of num_choices - 1
McqChoicesOneTooMany(values, correct, num_choices, rng) ==
    LET incorrect_pool == SelectSeq(values, LAMBDA v : v # correct)
        choice_count == Min(num_choices, Len(incorrect_pool))
        incorrect_choices == IF choice_count > 0
                             THEN RngSample(incorrect_pool, choice_count, rng)
                             ELSE [value |-> <<>>, rng |-> rng]
    IN  RngShuffle(Append(incorrect_choices.value, correct), incorrect_choices.rng)

\* the choices of one multiple-choice question: wrong values sampled from the
\* other entries' values, the right one appended, the list shuffled
McqChoices(values, correct, num_choices, rng) ==
    LET incorrect_pool == SelectSeq(values, LAMBDA v : v # correct)
        choice_count == Min(num_choices - 1, Len(incorrect_pool))
        incorrect_choices == IF choice_count > 0
                             THEN RngSample(incorrect_pool, choice_count, rng)
                             ELSE [value |-> <<>>, rng |-> rng]
    IN  RngShuffle(Append(incorrect_choices.value, correct), incorrect_choices.rng)

\* questions.append(question) for a multiple-choice question with its choices
WithChoices(questions, question, correct, choices) ==
    [value |-> Append(questions, question @@ [choices |-> choices.value,
                                               correct |-> correct]),
     rng |-> choices.rng]

\* the body of the loop for a supported question type: the question built for
\* one selected entry is appended to the questions built so far (built.value);
\* built.rng is the generator's state
QuestionFor(vocab, entry, question_type, num_choices, built) ==
    CASE question_type = "hanzi_to_translation_input" ->
           [value |-> Append(built.value,
                BaseQuestion(entry, question_type) @@
                [accepted_translations |->
                     {normalize_text_answer(a) : a \in Range(gather_translation_answers(entry))},
                 accepted_answers_raw |-> gather_translation_answers(entry),
                 correct |-> entry.translation]),
            rng |-> built.rng]
      [] question_type = "hanzi_to_pinyin_input" ->
           [value |-> Append(built.value,
                BaseQuestion(entry, question_type) @@
                [normalized_pinyin |-> normalize_pinyin_value(entry.pinyin),
                 correct |-> entry.pinyin]),
            rng |-> built.rng]
      [] question_type = "translation_to_hanzi_mcq" ->
           WithChoices(built.value, BaseQuestion(entry, question_type), entry.hanzi,
                       McqChoices([i \in 1..Len(vocab) |-> vocab[i].hanzi],
                                  entry.hanzi, num_choices, built.rng))
      [] question_type = "hanzi_to_translation_mcq" ->
           WithChoices(built.value, BaseQuestion(entry, question_type), entry.translation,
                       McqChoices([i \in 1..Len(vocab) |-> vocab[i].translation],
                                  entry.translation, num_choices, built.rng))

\* for entry in selected: ...; an unsupported type raises in the first iteration
RECURSIVE QuestionLoop(_, _, _, _, _)
QuestionLoop(vocab, selected, question_type, num_choices, built) ==
    IF selected = <<>> THEN Returned(built.value)
    ELSE IF question_type \notin QuestionTypes THEN Raised("ValueError")
    ELSE QuestionLoop(vocab, Tail(selected), question_type, num_choices,
                      QuestionFor(vocab, Head(selected), question_type, num_choices, built))

\* build_question_pool without min(): rng.sample is asked for num_questions
\* entries and raises when that is more than the pool holds
build_question_pool_unclamped(vocab, num_questions, question_type, num_choices, seed) ==
    LET total_questions == num_questions
        selected == RngSample(vocab, total_questions, Random(seed))
    IN  IF total_questions < 0 \/ total_questions > Len(vocab) THEN Raised("ValueError")
        ELSE QuestionLoop(vocab, selected.value, question_type, num_choices,
                          [value |-> <<>>, rng |-> selected.rng])

\* build_question_pool: the question list returned, or the ValueError raised by
\* rng.sample (for a negative k) or by the loop
build_question_pool(vocab, num_questions, question_type, num_choices, seed) ==
    LET total_questions == Min(num_questions, Len(vocab))
        selected == RngSample(vocab, total_questions, Random(seed))
    IN  IF total_questions < 0 THEN Raised("ValueError")
        ELSE QuestionLoop(vocab, selected.value, question_type, num_choices,
                          [value |-> <<>>, rng |-> selected.rng])

(***************************************************************************)
(* The database: two quizzes (QUIZ_DEFINITIONS of seed.py) and their       *)
(* entries.  load_csv_entries strips every field and ensure_seeded keeps   *)
(* only rows whose hanzi, pinyin and translation are non-empty.            *)
(***************************************************************************)
Entry(hanzi, pinyin, translation, alt_translations) ==
    [hanzi |-> hanzi, pinyin |-> pinyin, translation |-> translation,
     alt_translations |-> alt_translations]

\* rows of the HSK1 table: the first PoolSize of them are seeded
Vocabulary ==
    <<Entry(<<"han_1">>, <<"n", "i_caron">>, <<"a">>, <<"e">>),
      Entry(<<"han_2">>, <<"h", "a_caron", "o">>, <<"d", "e">>, <<>>),
      Entry(<<"han_3">>, <<"l", "u_uml_grave">>, <<"a">>, <<>>),
      Entry(<<"han_4">>, <<"m", "a">>, <<"m", "e", "r">>, <<>>)>>

\* number of HSK1 entries
PoolSize == 2

\* list_quizzes(): the quiz keys, ordered by level
quiz_keys == <<"HSK1", "HSK2">>

\* the contents the entries table can have: HSK2 with one row or with none
Databases ==
    {[HSK1 |-> SubSeq(Vocabulary, 1, Min(PoolSize, Len(Vocabulary) - 1)), HSK2 |-> hsk2] :
        hsk2 \in {<<>>, <<Vocabulary[Len(Vocabulary)]>>}}

get_entries(quiz_key) == entries[quiz_key]

(***************************************************************************)
(* Session state.  A dictionary is a function from its keys; d.get(k, x)   *)
(* is Get(d, k, x).                                                        *)
(***************************************************************************)
Get(d, k, default) == IF k \in DOMAIN d THEN d[k] ELSE default

\* ClearedSession without the assignments to score and history
ClearedSessionKeepingHistory(ss, num_questions, questions) ==
    [ss EXCEPT !.num_questions = num_questions, !.questions = questions,
               !.current_idx = 0, !.answered = FALSE,
               !.last_choice = None, !.feedback = ""]

\* the keys reset_quiz assigns after it has stored vocab, quiz and type
ClearedSession(ss, num_questions, questions) ==
    [ss EXCEPT !.num_questions = num_questions, !.questions = questions,
               !.current_idx = 0, !.score = 0, !.answered = FALSE,
               !.last_choice = None, !.feedback = "", !.history = <<>>]

\* the end of reset_quiz once build_question_pool has returned or raised:
\* when it raised, the keys stored before the call stay and the rest is untouched
StoreQuestions(stored, total_questions, built) ==
    IF built.raised # NoException
    THEN [raised |-> built.raised,
          value |-> [stored EXCEPT !.num_questions = total_questions]]
    ELSE Returned(ClearedSession(stored, total_questions, built.value))

\* reset_quiz: what it raises, if anything, and the session state it leaves
reset_quiz(ss, quiz_key, num_questions, question_type, seed) ==
    IF get_entries(quiz_key) = <<>>
    THEN Returned(ClearedSession(
             [ss EXCEPT !.vocab = <<>>, !.selected_quiz = quiz_key,
                        !.question_type = question_type], 0, <<>>))
    ELSE StoreQuestions(
             [ss EXCEPT !.vocab = get_entries(quiz_key), !.selected_quiz = quiz_key,
                        !.question_type = question_type],
             Min(num_questions, Len(get_entries(quiz_key))),
             build_question_pool(get_entries(quiz_key),
                                 Min(num_questions, Len(get_entries(quiz_key))),
                                 question_type, DefaultNumChoices, seed))

get_question_pinyin_tokens(question) ==
    IF "normalized_pinyin" \in DOMAIN question THEN question.normalized_pinyin
    ELSE normalize_pinyin_value(Get(question, "pinyin", <<>>))

\* IsCorrect without the bool(normalized_input) tests
IsCorrectWithoutBlankCheck(question, variant, user_answer) ==
    CASE Get(question, "type", DEFAULT_QUESTION_TYPE) = "hanzi_to_translation_input" ->
           \E normalized_input \in {IF user_answer # <<>>
                                    THEN normalize_text_answer(user_answer) ELSE <<>>} :
               normalized_input \in Get(question, "accepted_translations", {})
      [] Get(question, "type", DEFAULT_QUESTION_TYPE) = "hanzi_to_pinyin_input" ->
           \E normalized_input \in {normalize_pinyin_value(user_answer)},
              expected \in {get_question_pinyin_tokens(question)} :
               IF variant = "without_tones"
               THEN strip_pinyin_tones(normalized_input) = strip_pinyin_tones(expected)
               ELSE normalized_input = expected
      [] OTHER -> user_answer = Get(question, "correct", <<>>)

\* is_correct as evaluate_answer computes it
IsCorrect(question, variant, user_answer) ==
    CASE Get(question, "type", DEFAULT_QUESTION_TYPE) = "hanzi_to_translation_input" ->
           \E normalized_input \in {IF user_answer # <<>>
                                    THEN normalize_text_answer(user_answer) ELSE <<>>} :
               /\ normalized_input # <<>>
               /\ normalized_input \in Get(question, "accepted_translations", {})
      [] Get(question, "type", DEFAULT_QUESTION_TYPE) = "hanzi_to_pinyin_input" ->
           \E normalized_input \in {normalize_pinyin_value(user_answer)},
              expected \in {get_question_pinyin_tokens(question)} :
               /\ normalized_input # <<>>
               /\ IF variant = "without_tones"
                  THEN strip_pinyin_tones(normalized_input) = strip_pinyin_tones(expected)
                  ELSE normalized_input = expected
      [] OTHER -> user_answer = Get(question, "correct", <<>>)

\* RecordAnswer with the score incremented for every answer
RecordAnswerCountingAll(ss, question, user_answer, is_correct) ==
    [ss EXCEPT
        !.answered = TRUE,
        !.last_choice = user_answer,
        !.score = @ + 1,
        !.feedback = IF is_correct THEN "Bonne reponse !" ELSE "Mauvaise reponse",
        !.history = Append(@, [hanzi |-> question.hanzi,
                               pinyin |-> question.pinyin,
                               correct |-> Get(question, "correct", None),
                               translation |-> Get(question, "translation", None),
                               question_type |-> Get(question, "type", DEFAULT_QUESTION_TYPE),
                               user_choice |-> user_answer,
                               is_correct |-> is_correct])]

\* RecordAnswer with history assigned a fresh list holding the new entry
RecordAnswerOverwritingHistory(ss, question, user_answer, is_correct) ==
    [ss EXCEPT
        !.answered = TRUE,
        !.last_choice = user_answer,
        !.score = IF is_correct THEN @ + 1 ELSE @,
        !.feedback = IF is_correct THEN "Bonne reponse !" ELSE "Mauvaise reponse",
        !.history = <<[hanzi |-> question.hanzi,
                       pinyin |-> question.pinyin,
                       correct |-> Get(question, "correct", None),
                       translation |-> Get(question, "translation", None),
                       question_type |-> Get(question, "type", DEFAULT_QUESTION_TYPE),
                       user_choice |-> user_answer,
                       is_correct |-> is_correct]>>]

\* RecordAnswer whose history entry describes the first question of the
\* session, whichever question was answered
RecordAnswerOfFirstQuestion(ss, question, user_answer, is_correct) ==
    [ss EXCEPT
        !.answered = TRUE,
        !.last_choice = user_answer,
        !.score = IF is_correct THEN @ + 1 ELSE @,
        !.feedback = IF is_correct THEN "Bonne reponse !" ELSE "Mauvaise reponse",
        !.history = Append(@, [hanzi |-> ss.questions[1].hanzi,
                               pinyin |-> question.pinyin,
                               correct |-> Get(question, "correct", None),
                               translation |-> Get(question, "translation", None),
                               question_type |-> Get(question, "type", DEFAULT_QUESTION_TYPE),
                               user_choice |-> user_answer,
                               is_correct |-> is_correct])]

\* the assignments that end evaluate_answer
RecordAnswer(ss, question, user_answer, is_correct) ==
    [ss EXCEPT
        !.answered = TRUE,
        !.last_choice = user_answer,
        !.score = IF is_correct THEN @ + 1 ELSE @,
        !.feedback = IF is_correct THEN "Bonne reponse !" ELSE "Mauvaise reponse",
        !.history = Append(@, [hanzi |-> question.hanzi,
                               pinyin |-> question.pinyin,
                               correct |-> Get(question, "correct", None),
                               translation |-> Get(question, "translation", None),
                               question_type |-> Get(question, "type", DEFAULT_QUESTION_TYPE),
                               user_choice |-> user_answer,
                               is_correct |-> is_correct])]

\* user_answer = (submission or "").strip()
UserAnswer(sub) == Strip(IF sub = None THEN <<>> ELSE sub)

\* evaluate_answer(submission): the session state it leaves
evaluate_answer(ss, sub) ==
    RecordAnswer(ss, ss.questions[ss.current_idx + 1], UserAnswer(sub),
                 IsCorrect(ss.questions[ss.current_idx + 1], ss.pinyin_variant,
                           UserAnswer(sub)))

(***************************************************************************)
(* The page.  One interaction is one run of main() with the widget values  *)
(* of that moment and at most one pressed button or submitted form, and,   *)
(* when the run ends in trigger_rerun(), the run that follows it.          *)
(* Of st.session_state the keys of the quiz session and of the signed-in   *)
(* user are modelled; the keys that only drive the display (hints, input   *)
(* boxes, quiz_meta) are not.                                              *)
(***************************************************************************)
\* str(tone) for a tone of TONE_OPTIONS
ToneDigit(tone) ==
    CASE tone = 1 -> "1" [] tone = 2 -> "2" [] tone = 3 -> "3" [] tone = 4 -> "4"

TONE_OPTIONS == {0, 1, 2, 3, 4}

\* " ".join(parts)
RECURSIVE JoinSpace(_)
JoinSpace(parts) ==
    IF parts = <<>> THEN <<>>
    ELSE IF Len(parts) = 1 THEN parts[1]
    ELSE parts[1] \o <<" ">> \o JoinSpace(Tail(parts))

\* <<answer string, missing>>
build_structured_pinyin_submission(syllables, tones) ==
    LET missing == \E i \in 1..Len(syllables) : Strip(syllables[i]) = <<>>
        count == Min(Len(syllables), Len(tones))
        part(i) == LET base == Strip(syllables[i])
                   IN  IF base = <<>> THEN <<>>
                       ELSE <<base \o (IF tones[i] = 0 THEN <<>> ELSE <<ToneDigit(tones[i])>>)>>
    IN  <<Strip(JoinSpace(Flatten([i \in 1..count |-> part(i)]))), missing>>

\* what the user can type into a text box or a syllable box, and the tones picked
TextInputs == {<<>>, <<" ">>, <<"a">>, <<"n", "i">>}

SyllableInputs == {<<>>, <<"n", "i">>}

FormTones == {0, 3}

\* the contents the form of render_quiz can be submitted with
FormInputs(question, variant) ==
    LET question_type == Get(question, "type", DEFAULT_QUESTION_TYPE)
        syllable_count == Max(1, Len(get_question_pinyin_tokens(question)))
    IN  IF question_type \in {"hanzi_to_translation_mcq", "translation_to_hanzi_mcq"}
        THEN {[choice |-> c] : c \in Range(Get(question, "choices", <<>>)) \cup {None}}
        ELSE IF question_type = "hanzi_to_translation_input" \/ variant = "without_tones"
        THEN {[choice |-> c] : c \in TextInputs}
        ELSE {[syllable_inputs |-> si, tone_inputs |-> ti] :
                 si \in [1..syllable_count -> SyllableInputs],
                 ti \in [1..syllable_count -> FormTones]}

\* The results of render_quiz() and main(): the session state left and whether
\* the run ended in trigger_rerun().  ui is the interaction of the run: its kind
\* is "submit" (with the form's contents), "next", "new_series", "slider",
\* "variant" or "rerun".
Stay(ss) == [ss |-> ss, rerun |-> FALSE]

Rerun(ss) == [ss |-> ss, rerun |-> TRUE]

\* <<choice, missing_syllables>> when the form's widgets have been read
FormChoice(ss, question_type, form) ==
    IF question_type = "hanzi_to_pinyin_input" /\ ss.pinyin_variant = "with_tones"
    THEN build_structured_pinyin_submission(form.syllable_inputs, form.tone_inputs)
    ELSE <<form.choice, FALSE>>

\* "if submitted:" with read == <<choice, missing_syllables>>; the two warnings
\* leave the session as it is
Submitted(ss, question_type, read) ==
    IF /\ question_type = "hanzi_to_pinyin_input"
       /\ ss.pinyin_variant = "with_tones"
       /\ read[2]
    THEN Stay(ss)
    ELSE IF read[1] = None \/ Strip(read[1]) = <<>> THEN Stay(ss)
    ELSE Rerun(evaluate_answer(ss, read[1]))

\* the branch of render_quiz for a question not yet answered: the form
FormBranch(ss, ui) ==
    IF ui.kind # "submit" THEN Stay(ss)
    ELSE Submitted(ss, Get(ss.questions[ss.current_idx + 1], "type", DEFAULT_QUESTION_TYPE),
                   FormChoice(ss, Get(ss.questions[ss.current_idx + 1], "type",
                                      DEFAULT_QUESTION_TYPE), ui.form))

\* NextBranch that leaves answered set
NextBranchKeepingAnswered(ss, ui) ==
    IF ui.kind # "next" THEN Stay(ss)
    ELSE Rerun([ss EXCEPT !.current_idx = @ + 1, !.last_choice = None, !.feedback = ""])

\* the branch of render_quiz for an answered question: the "Question suivante" button
NextBranch(ss, ui) ==
    IF ui.kind # "next" THEN Stay(ss)
    ELSE Rerun([ss EXCEPT !.current_idx = @ + 1, !.answered = FALSE,
                          !.last_choice = None, !.feedback = ""])

\* render_quiz whose "Question suivante" button also works on a question not
\* yet answered
render_quiz_skipping(ss, ui) ==
    IF ~ss.answered /\ ui.kind # "next" THEN FormBranch(ss, ui) ELSE NextBranch(ss, ui)

\* render_quiz that takes a form submission whether or not the question is answered
render_quiz_unguarded(ss, ui) ==
    IF ~ss.answered \/ ui.kind = "submit" THEN FormBranch(ss, ui) ELSE NextBranch(ss, ui)

render_quiz(ss, ui) ==
    IF ~ss.answered THEN FormBranch(ss, ui) ELSE NextBranch(ss, ui)

\* largest seed: random.randint(0, 10_000) of the "Nouvelle serie" button, and
\* the streams a generator seeded with None can have
MaxSeed == 1

Seeds == 0..MaxSeed

\* default of session_state.get("num_questions", min(10, max_questions))
DefaultNumQuestions == 10

\* render_summary that adds to the score each time the summary is shown
render_summary_rescoring(ss) == Stay([ss EXCEPT !.score = @ + 1])

\* render_summary(): the summary reads score, questions and history and writes
\* nothing
render_summary(ss) == Stay(ss)

\* total of render_summary(): the count its message reports
SummaryTotal(ss) == ss.num_questions

\* previous_question_type of main()
PreviousQuestionType(ss) ==
    IF ss.question_type \in QuestionTypes THEN ss.question_type ELSE DEFAULT_QUESTION_TYPE

\* CallsResetQuiz that does not look at the question type
CallsResetQuizOnQuizOnly(ss, w, ui) ==
    /\ get_entries(w.quiz) # <<>>
    /\ \/ ss.selected_quiz # w.quiz
       \/ ui.kind = "new_series"

\* the run of main() calls reset_quiz: the pool is not empty and the quiz or the
\* question type changed, or "Nouvelle serie" was pressed
CallsResetQuiz(ss, w, ui) ==
    /\ get_entries(w.quiz) # <<>>
    /\ \/ ss.selected_quiz # w.quiz
       \/ w.question_type # PreviousQuestionType(ss)
       \/ ui.kind = "new_series"

(***************************************************************************)
(* The signed-in user and their settings (utils/auth_ui.py, repo.py).      *)
(* st.session_state["user"] is a dictionary or None; None is the record    *)
(* NoUser, which has none of the keys of a user.  A settings dictionary is *)
(* a record with the one key the page uses, None where the key is absent.  *)
(***************************************************************************)
NoUser == [none |-> TRUE]

\* the empty settings dictionary
NoSettings == [default_num_questions |-> None]

\* get_user_settings(user_id): the rows of the user's settings, as a dictionary
get_user_settings(user_id) ==
    IF user_id \in DOMAIN user_settings THEN user_settings[user_id] ELSE NoSettings

\* ensure_user_settings_loaded(): the settings are read from the table when a
\* user is signed in and the session holds no setting
ensure_user_settings_loaded(ss) ==
    IF ss.user # NoUser /\ ss.user_settings = NoSettings
    THEN [ss EXCEPT !.user_settings = get_user_settings(ss.user.id)]
    ELSE ss

\* show_auth_notice(): a pending notice is displayed and cleared
show_auth_notice(ss) == [ss EXCEPT !.auth_notice = None]

\* the decimal digit of a number below ten
DigitChar(n) ==
    CASE n = 0 -> "0" [] n = 1 -> "1" [] n = 2 -> "2" [] n = 3 -> "3" [] n = 4 -> "4"
      [] n = 5 -> "5" [] n = 6 -> "6" [] n = 7 -> "7" [] n = 8 -> "8" [] n = 9 -> "9"

\* str(n) of a natural number
RECURSIVE StrInt(_)
StrInt(n) ==
    IF n < 10 THEN <<DigitChar(n)>> ELSE Append(StrInt(n \div 10), DigitChar(n % 10))

\* the value of a string of decimal digits
RECURSIVE DecimalValue(_)
DecimalValue(digits) ==
    IF digits = <<>> THEN 0
    ELSE 10 * DecimalValue(SubSeq(digits, 1, Len(digits) - 1))
             + DigitValue(digits[Len(digits)])

\* int(text) of a str: surrounding whitespace is dropped, one sign may lead,
\* and what is left must be decimal digits, or ValueError is raised
ParseInt(text) ==
    LET stripped == Strip(text)
        signed == stripped # <<>> /\ Head(stripped) \in {"+", "-"}
        digits == IF signed THEN Tail(stripped) ELSE stripped
    IN  IF digits # <<>> /\ \A i \in 1..Len(digits) : digits[i] \in Digits
        THEN Returned(IF signed /\ Head(stripped) = "-"
                      THEN 0 - DecimalValue(digits) ELSE DecimalValue(digits))
        ELSE Raised("ValueError")

\* bool(value) of a setting read with .get(): None and "" are false
Truthy(value) == value # None /\ value # <<>>

\* default_num whose try of the stored preference has no except clause: the
\* ValueError of int() leaves main()
default_num_uncaught(ss, max_questions) ==
    LET stored_default == ss.user_settings.default_num_questions
        previous == Returned(ss.num_questions)
        read == IF ss.user # NoUser /\ Truthy(stored_default)
                THEN ParseInt(stored_default)
                ELSE previous
    IN  IF read.raised # NoException THEN read
        ELSE Returned(Max(1, Min(read.value, max_questions)))

\* the try/except ValueError of main(): the in-memory count stands in for a
\* stored preference that int() rejected
ExceptValueError(parsed, previous) ==
    IF parsed.raised = "ValueError" THEN previous ELSE parsed

\* default_num of main(): the count the slider offers, or the exception that
\* computing it raises.  It is the in-memory count, replaced by the stored
\* preference of a signed-in user when int() accepts it, then clamped
default_num(ss, max_questions) ==
    LET stored_default == ss.user_settings.default_num_questions
        previous == Returned(ss.num_questions)
        read == IF ss.user # NoUser /\ Truthy(stored_default)
                THEN ExceptValueError(ParseInt(stored_default), previous)
                ELSE previous
    IN  IF read.raised # NoException THEN read
        ELSE Returned(Max(1, Min(read.value, max_questions)))

\* the end of the configuration block of main(): the count chosen on the slider
\* is kept in the session and, for a signed-in user, stored as their preference
StoreNumQuestions(ss, num_questions) ==
    [ss EXCEPT !.num_questions = num_questions,
               !.user_settings = IF ss.user # NoUser
                                 THEN [@ EXCEPT !.default_num_questions =
                                                    StrInt(num_questions)]
                                 ELSE @]

\* set_user_setting(): the user_settings table once the runs of main() that
\* left the session ss have stored the preference they chose
SavedSettings(ss, table) ==
    IF ss.user # NoUser /\ ss.user_settings # NoSettings
    THEN [user_id \in DOMAIN table \cup {ss.user.id} |->
              IF user_id = ss.user.id THEN ss.user_settings ELSE table[user_id]]
    ELSE table

\* the end of main() that calls render_quiz whenever there are questions
DispatchWithoutSummary(ss) == IF ss.questions = <<>> THEN "info" ELSE "quiz"

\* the end of main(): what the run renders for the session ss, the notice that
\* the quiz has no entries, the summary, or the current question
Dispatch(ss) ==
    IF ss.questions = <<>> THEN "info"
    ELSE IF ss.current_idx >= Len(ss.questions) THEN "summary"
    ELSE "quiz"

\* main() from the reset decision on: ss is the session the run began with,
\* ss2 the session with the chosen count stored
MainQuiz(ss, ss2, w, ui) ==
    IF CallsResetQuiz(ss, w, ui)
    THEN {Rerun(reset_quiz(ss2, w.quiz, ss2.num_questions, w.question_type,
                           seed).value) : seed \in Seeds}
    ELSE IF Dispatch(ss2) = "info" THEN {Stay(ss2)}
    ELSE IF Dispatch(ss2) = "summary" THEN {render_summary(ss2)}
    ELSE {render_quiz(ss2, ui)}

\* main() from the slider on: an exception raised for the default count ends
\* the run, or else the slider gives num_questions
MainSlider(ss, ss1, w, ui, default) ==
    IF default.raised # NoException THEN {Stay(ss1)}
    ELSE MainQuiz(ss, StoreNumQuestions(ss1, IF ui.kind = "slider" THEN ui.value
                                             ELSE default.value), w, ui)

\* main() from the quiz selectbox on: ss1 is the session after the notice and
\* the pinyin variant block; an empty pool ends the run
MainPool(ss, ss1, w, ui) ==
    IF get_entries(w.quiz) = <<>> THEN {Stay(ss1)}
    ELSE MainSlider(ss, ss1, w, ui, default_num(ss1, Len(get_entries(w.quiz))))

\* the pinyin variant radio of main(), shown for the pinyin question type
StoreVariant(ss, w, ui) ==
    IF w.question_type = "hanzi_to_pinyin_input" /\ ui.kind = "variant"
    THEN [ss EXCEPT !.pinyin_variant = ui.value] ELSE ss

\* main(): the results one run can have, for the widget values w and interaction ui
main(ss, w, ui) ==
    MainPool(ss, StoreVariant(show_auth_notice(ensure_user_settings_loaded(ss)), w, ui),
             w, ui)

\* the session states one interaction can leave: the run, and the rerun it asks for
RECURSIVE Page(_, _, _)
Page(ss, w, ui) ==
    UNION {IF r.rerun THEN Page(r.ss, w, [kind |-> "rerun"]) ELSE {r.ss} :
              r \in main(ss, w, ui)}

\* the page got past its configuration block, down to the quiz or its summary
QuizShown == get_entries(widgets.quiz) # <<>>

\* render_quiz() is called: a question is on the page
QuestionShown ==
    /\ QuizShown
    /\ session_state.current_idx < Len(session_state.questions)

\* session_state before the first run stored anything: the values the .get()
\* defaults of main() stand for
BlankSession ==
    [vocab |-> <<>>, selected_quiz |-> None, question_type |-> DEFAULT_QUESTION_TYPE,
     num_questions |-> DefaultNumQuestions, questions |-> <<>>, current_idx |-> 0,
     score |-> 0, answered |-> FALSE, last_choice |-> None, feedback |-> "",
     history |-> <<>>, pinyin_variant |-> DEFAULT_PINYIN_VARIANT,
     user |-> NoUser, user_settings |-> NoSettings, auth_notice |-> None]

\* no function call is on record
NoCall == [fn |-> "none"]

\* where a session stands: not started ("fresh"), on an unanswered question
\* after the first ("mid-question"), on an answered question ("answered"), or
\* past the last question ("complete")
SessionPhase(ss) ==
    IF ss.questions # <<>> /\ ss.current_idx >= Len(ss.questions) THEN "complete"
    ELSE IF ss.answered THEN "answered"
    ELSE IF ss.current_idx > 0 THEN "mid-question"
    ELSE "fresh"

\* the record of a run of main(): the reset_quiz call it made, with the phase
\* of the session it was made in, or else the interaction itself
RunCall(ss, w, ui, interaction) ==
    IF CallsResetQuiz(ss, w, ui)
    THEN [fn |-> "reset_quiz", phase |-> SessionPhase(ss)]
    ELSE interaction

\* the state after the first load of the page
Init ==
    /\ entries \in Databases
    /\ widgets = [quiz |-> quiz_keys[1], question_type |-> DEFAULT_QUESTION_TYPE]
    /\ session_state \in Page(BlankSession, widgets, [kind |-> "rerun"])
    /\ submission = None
    /\ call = NoCall
    /\ outcome = NoCall
    /\ users = <<>>
    /\ user_settings = <<>>

\* the quiz selectbox
ChangeQuiz ==
    \E k \in Range(quiz_keys) :
        /\ k # widgets.quiz
        /\ widgets' = [widgets EXCEPT !.quiz = k]
        /\ session_state' \in Page(session_state, widgets', [kind |-> "rerun"])
        /\ call' = RunCall(session_state, widgets', [kind |-> "rerun"], NoCall)
        /\ user_settings' = SavedSettings(session_state', user_settings)
        /\ UNCHANGED <<entries, submission, outcome, users>>

\* the question type radio
ChangeType ==
    \E t \in QuestionTypes :
        /\ t # widgets.question_type
        /\ widgets' = [widgets EXCEPT !.question_type = t]
        /\ session_state' \in Page(session_state, widgets', [kind |-> "rerun"])
        /\ call' = RunCall(session_state, widgets', [kind |-> "rerun"], NoCall)
        /\ user_settings' = SavedSettings(session_state', user_settings)
        /\ UNCHANGED <<entries, submission, outcome, users>>

\* the pinyin variant radio, shown for the pinyin question type
ChangeVariant ==
    \E v \in PinyinVariants :
        /\ widgets.question_type = "hanzi_to_pinyin_input"
        /\ v # session_state.pinyin_variant
        /\ session_state' \in Page(session_state, widgets, [kind |-> "variant", value |-> v])
        /\ call' = NoCall
        /\ user_settings' = SavedSettings(session_state', user_settings)
        /\ UNCHANGED <<widgets, entries, submission, outcome, users>>

\* the question count slider
ChangeSlider ==
    \E n \in 1..Len(get_entries(widgets.quiz)) :
        /\ QuizShown
        /\ n # session_state.num_questions
        /\ session_state' \in Page(session_state, widgets, [kind |-> "slider", value |-> n])
        /\ call' = NoCall
        /\ user_settings' = SavedSettings(session_state', user_settings)
        /\ UNCHANGED <<widgets, entries, submission, outcome, users>>

\* the "Nouvelle serie" button
NewSeries ==
    /\ QuizShown
    /\ session_state' \in Page(session_state, widgets, [kind |-> "new_series"])
    /\ call' = RunCall(session_state, widgets, [kind |-> "new_series"], NoCall)
    /\ user_settings' = SavedSettings(session_state', user_settings)
    /\ UNCHANGED <<widgets, entries, submission, outcome, users>>

\* the form's "Valider la reponse" button; call records that this run was a
\* form submission and whether the question had been answered when it arrived
SubmitForm ==
    /\ QuestionShown
    /\ \E form \in FormInputs(session_state.questions[session_state.current_idx + 1],
                             session_state.pinyin_variant) :
           session_state' \in Page(session_state, widgets,
                                   [kind |-> "submit", form |-> form])
    /\ call' = [fn |-> "submit", answered |-> session_state.answered]
    /\ user_settings' = SavedSettings(session_state', user_settings)
    /\ UNCHANGED <<widgets, entries, submission, outcome, users>>

\* the "Question suivante" button; call records the press and whether the
\* question had been answered when it arrived
NextQuestion ==
    /\ QuestionShown
    /\ session_state' \in Page(session_state, widgets, [kind |-> "next"])
    /\ call' = [fn |-> "next", answered |-> session_state.answered]
    /\ user_settings' = SavedSettings(session_state', user_settings)
    /\ UNCHANGED <<widgets, entries, submission, outcome, users>>

Next ==
    \/ ChangeQuiz
    \/ ChangeType
    \/ ChangeVariant
    \/ ChangeSlider
    \/ NewSeries
    \/ SubmitForm
    \/ NextQuestion

Spec == Init /\ [][Next]_vars

(***************************************************************************)
(* evaluate_answer on its own.  The session is a fresh reset_quiz over a   *)
(* pool whose entries spell out the strings the comparison rules are about *)
(* (accents, capitals, tone marks and tone digits, a translation and a     *)
(* pinyin made of punctuation only); evaluate_answer is then called with   *)
(* any submission, as a caller without the page's blank check may call it. *)
(***************************************************************************)
EvalVocabulary ==
    <<Entry(<<"han_1">>, <<"n", "i_caron", " ", "h", "a_caron", "o">>,
            <<"a", "i", "m", "e", "r">>,
            <<"a", "p", "p", "r", "e", "c", "i", "e", "r", ";", " ",
              "a", "d", "o", "r", "e", "r">>),
      Entry(<<"han_2">>, <<"?">>, <<"!">>, <<>>),
      Entry(<<"han_3">>, <<"m", "a">>, <<"a", "i", "m", "e", "r">>, <<"-">>)>>

\* the tables evaluate_answer is studied over: the first entries of EvalVocabulary
EvalDatabases ==
    {[HSK1 |-> SubSeq(EvalVocabulary, 1, n), HSK2 |-> <<>>] : n \in 1..Len(EvalVocabulary)}

\* submissions without an answer in them: None, "", " ", " \n"
BlankSubmissions == {None, <<>>, <<" ">>, <<" ", "LF">>}

\* submissions typed into a text box
TypedSubmissions ==
    {<<"A", "i", "m", "e", "r">>,
     <<"A", "I", "M", "E", "R", " ">>,
     <<"a", "p", "p", "r", "e_acute", "c", "i", "e", "r">>,
     <<"a", "d", "o", "r", "e", "r">>,
     <<"d", "e", "t", "e", "s", "t", "e", "r">>,
     <<"n", "i", "3", " ", "h", "a", "o", "3">>,
     <<"n", "i_caron", " ", "h", "a_caron", "o">>,
     <<"n", "i", " ", "h", "a", "o">>,
     <<"n", "i_grave", " ", "h", "a_caron", "o">>,
     <<"?">>, <<"-">>}

\* what evaluate_answer can be handed for a question
Submissions(question) ==
    BlankSubmissions \cup TypedSubmissions \cup Range(Get(question, "choices", <<>>))

InitEval ==
    /\ entries \in EvalDatabases
    /\ widgets \in {[quiz |-> quiz_keys[1], question_type |-> t] : t \in QuestionTypes}
    /\ session_state \in
           {reset_quiz([BlankSession EXCEPT !.pinyin_variant = v], widgets.quiz, n,
                       widgets.question_type, seed).value :
                v \in PinyinVariants, n \in 1..Len(get_entries(widgets.quiz)),
                seed \in Seeds}
    /\ submission = None
    /\ call = NoCall
    /\ outcome = NoCall
    /\ users = <<>>
    /\ user_settings = <<>>

\* evaluate_answer(sub) on the current question
EvalSubmit ==
    /\ session_state.current_idx < Len(session_state.questions)
    /\ ~session_state.answered
    /\ \E sub \in Submissions(session_state.questions[session_state.current_idx + 1]) :
           /\ submission' = sub
           /\ session_state' = evaluate_answer(session_state, sub)
    /\ call' = [fn |-> "evaluate_answer"]
    /\ UNCHANGED <<widgets, entries, outcome, users, user_settings>>

\* the "Question suivante" button
EvalAdvance ==
    /\ session_state.current_idx < Len(session_state.questions)
    /\ session_state.answered
    /\ session_state' = render_quiz(session_state, [kind |-> "next"]).ss
    /\ call' = NoCall
    /\ UNCHANGED <<widgets, entries, submission, outcome, users, user_settings>>

NextEval ==
    \/ EvalSubmit
    \/ EvalAdvance

SpecEval == InitEval /\ [][NextEval]_vars

(***************************************************************************)
(* build_question_pool and reset_quiz on their own: one call, with a pool, *)
(* a count (negative, zero, up to and beyond the pool's size), a question  *)
(* type (one of the four, or another string) and a seed.                   *)
(***************************************************************************)
\* largest pool handed to build_question_pool
MaxPool == 3

\* largest count asked for; counts run from -MaxCount to MaxCount
MaxCount == 4

Counts == (0 - MaxCount)..MaxCount

\* a question type that is none of the four
UnsupportedQuestionType == "bogus"

\* seed=None, the default of the seed parameter
NoSeed == 0 - 1

\* random.Random() whatever the seed: every generator is seeded from the
\* operating system
RandomStreamsIgnoringSeed(seed) == Seeds

\* random.Random(seed): the streams the generator of one call can have, the one
\* the seed fixes or, for seed=None, any
RandomStreams(seed) == IF seed = NoSeed THEN Seeds ELSE {seed}

BuildCalls ==
    {[fn |-> "build_question_pool", vocab |-> SubSeq(Vocabulary, 1, n),
      num_questions |-> c, question_type |-> t, num_choices |-> k, seed |-> seed] :
        n \in 0..Min(MaxPool, Len(Vocabulary)), c \in Counts,
        t \in QuestionTypes \cup {UnsupportedQuestionType},
        k \in {1, 2, DefaultNumChoices}, seed \in Seeds \cup {NoSeed}}

ResetCalls ==
    {[fn |-> "reset_quiz", quiz_key |-> q, num_questions |-> c, question_type |-> t,
      seed |-> seed] :
        q \in Range(quiz_keys), c \in Counts, t \in QuestionTypes,
        seed \in Seeds \cup {NoSeed}}

InitBuild ==
    /\ entries \in Databases
    /\ widgets = [quiz |-> quiz_keys[1], question_type |-> DEFAULT_QUESTION_TYPE]
    /\ session_state = BlankSession
    /\ submission = None
    /\ call \in BuildCalls \cup ResetCalls
    /\ outcome = NoCall
    /\ users = <<>>
    /\ user_settings = <<>>

\* build_question_pool(vocab, num_questions, question_type, num_choices, seed)
CallBuild ==
    /\ call.fn = "build_question_pool"
    /\ outcome = NoCall
    /\ \E stream \in RandomStreams(call.seed) :
           outcome' = build_question_pool(call.vocab, call.num_questions,
                                          call.question_type, call.num_choices, stream)
    /\ UNCHANGED <<session_state, widgets, entries, submission, call, users, user_settings>>

\* the same call once more; outcome keeps what the first call returned and
\* records, as again, what the second returns
CallBuildAgain ==
    /\ call.fn = "build_question_pool"
    /\ outcome # NoCall
    /\ "again" \notin DOMAIN outcome
    /\ \E stream \in RandomStreams(call.seed) :
           outcome' = [raised |-> outcome.raised, value |-> outcome.value,
                       again |-> build_question_pool(call.vocab, call.num_questions,
                                                     call.question_type,
                                                     call.num_choices, stream)]
    /\ UNCHANGED <<session_state, widgets, entries, submission, call, users, user_settings>>

\* reset_quiz(quiz_key, num_questions, question_type, seed)
CallReset ==
    /\ call.fn = "reset_quiz"
    /\ outcome = NoCall
    /\ \E result \in {reset_quiz(session_state, call.quiz_key, call.num_questions,
                                call.question_type, stream) :
                         stream \in RandomStreams(call.seed)} :
           /\ outcome' = [raised |-> result.raised, value |-> None]
           /\ session_state' = result.value
    /\ UNCHANGED <<widgets, entries, submission, call, users, user_settings>>

NextBuild ==
    \/ CallBuild
    \/ CallBuildAgain
    \/ CallReset

SpecBuild == InitBuild /\ [][NextBuild]_vars

(***************************************************************************)
(* normalize_text_answer on its own: called with any string of at most     *)
(* MaxText characters, then called again with what it returned.  The       *)
(* characters stand for the classes the function tells apart: a lowercase  *)
(* and an uppercase letter, a digit, the two kinds of whitespace, accented *)
(* letters of both cases, a combining mark on its own, the apostrophes,    *)
(* the hyphen, other punctuation and an ideograph.                         *)
(***************************************************************************)
\* longest string handed to normalize_text_answer
MaxText == 3

TextChars ==
    {"a", "E", "1", " ", "LF", "e_acute", "E_acute", "u_uml_grave", "comb_acute",
     "'", "rsquo", "-", ";", "han_1"}

TextStrings == UNION {[1..n -> TextChars] : n \in 0..MaxText}

InitText ==
    /\ entries = [HSK1 |-> <<>>, HSK2 |-> <<>>]
    /\ widgets = [quiz |-> quiz_keys[1], question_type |-> DEFAULT_QUESTION_TYPE]
    /\ session_state = BlankSession
    /\ submission = None
    /\ call \in {[fn |-> "normalize_text_answer", value |-> value] : value \in TextStrings}
    /\ outcome = NoCall
    /\ users = <<>>
    /\ user_settings = <<>>

\* normalize_text_answer(value)
CallNormalize ==
    /\ call.fn = "normalize_text_answer"
    /\ outcome = NoCall
    /\ outcome' = Returned(normalize_text_answer(call.value))
    /\ UNCHANGED <<session_state, widgets, entries, submission, call, users, user_settings>>

\* normalize_text_answer(normalized) for the string the first call returned;
\* outcome keeps that string and records, as again, what the second call returns
CallNormalizeAgain ==
    /\ call.fn = "normalize_text_answer"
    /\ outcome # NoCall
    /\ "again" \notin DOMAIN outcome
    /\ outcome' = [raised |-> outcome.raised, value |-> outcome.value,
                   again |-> normalize_text_answer(outcome.value)]
    /\ UNCHANGED <<session_state, widgets, entries, submission, call, users, user_settings>>

NextText ==
    \/ CallNormalize
    \/ CallNormalizeAgain

SpecText == InitText /\ [][NextText]_vars

(***************************************************************************)
(* split_alt_translations on its own: called with any alt_translations     *)
(* field of at most MaxAlt characters, made of a letter, the two kinds of  *)
(* whitespace, the slash, the separators ";" and "," and the characters of *)
(* the classifier marker "CL:".                                            *)
(***************************************************************************)
\* longest field handed to split_alt_translations
MaxAlt == 4

AltChars == {"a", "C", "l", ":", " ", "LF", "/", ",", ";"}

AltStrings == UNION {[1..n -> AltChars] : n \in 0..MaxAlt}

InitSynonyms ==
    /\ entries = [HSK1 |-> <<>>, HSK2 |-> <<>>]
    /\ widgets = [quiz |-> quiz_keys[1], question_type |-> DEFAULT_QUESTION_TYPE]
    /\ session_state = BlankSession
    /\ submission = None
    /\ call \in {[fn |-> "split_alt_translations", value |-> value] :
                    value \in AltStrings}
    /\ outcome = NoCall
    /\ users = <<>>
    /\ user_settings = <<>>

\* split_alt_translations(value)
CallSplit ==
    /\ call.fn = "split_alt_translations"
    /\ outcome = NoCall
    /\ outcome' = Returned(split_alt_translations(call.value))
    /\ UNCHANGED <<session_state, widgets, entries, submission, call, users, user_settings>>

NextSynonyms == CallSplit

SpecSynonyms == InitSynonyms /\ [][NextSynonyms]_vars

(***************************************************************************)
(* normalize_pinyin_value on its own: called with any string of at most    *)
(* MaxPinyin characters, made of the letters l, u and v, u-diaeresis plain *)
(* and with the grave accent, n preceded by apostrophe, the colon of the   *)
(* digraph "u:", and the digits 1, 4 and 5; and the structured form of     *)
(* render_quiz filled in with the tokens it returned.                      *)
(***************************************************************************)
\* longest string handed to normalize_pinyin_value
MaxPinyin == 4

PinyinChars == {"l", "u", "v", "u_uml", "u_uml_grave", "n_apos", ":", "1", "4", "5"}

PinyinStrings == UNION {[1..n -> PinyinChars] : n \in 0..MaxPinyin}

InitPinyin ==
    /\ entries = [HSK1 |-> <<>>, HSK2 |-> <<>>]
    /\ widgets = [quiz |-> quiz_keys[1], question_type |-> DEFAULT_QUESTION_TYPE]
    /\ session_state = BlankSession
    /\ submission = None
    /\ call \in {[fn |-> "normalize_pinyin_value", value |-> value] :
                    value \in PinyinStrings}
    /\ outcome = NoCall
    /\ users = <<>>
    /\ user_settings = <<>>

\* normalize_pinyin_value(value)
CallNormalizePinyin ==
    /\ call.fn = "normalize_pinyin_value"
    /\ outcome = NoCall
    /\ outcome' = Returned(normalize_pinyin_value(call.value))
    /\ UNCHANGED <<session_state, widgets, entries, submission, call, users, user_settings>>

\* the structured form of a question whose pinyin is call.value, submitted
\* with each base of the expected tokens in its syllable box and its tone
\* selected: the answer string, missing, and is_correct of evaluate_answer
SubmitStructured ==
    /\ call.fn = "normalize_pinyin_value"
    /\ outcome # NoCall
    /\ outcome.value # <<>>
    /\ call' = [fn |-> "structured", value |-> call.value, tokens |-> outcome.value]
    /\ \E built \in {build_structured_pinyin_submission(
                          [i \in 1..Len(outcome.value) |-> outcome.value[i][1]],
                          [i \in 1..Len(outcome.value) |-> outcome.value[i][2]])} :
           outcome' = [raised |-> NoException,
                       value |-> built[1],
                       missing |-> built[2],
                       is_correct |-> IsCorrect([type |-> "hanzi_to_pinyin_input",
                                                 pinyin |-> call.value],
                                                "with_tones", UserAnswer(built[1]))]
    /\ UNCHANGED <<session_state, widgets, entries, submission, users, user_settings>>

NextPinyin ==
    \/ CallNormalizePinyin
    \/ SubmitStructured

SpecPinyin == InitPinyin /\ [][NextPinyin]_vars

(***************************************************************************)
(* The users table and the account page (repo.py, utils/auth_ui.py,        *)
(* pages/Account.py).  A row of the table is a record; ids are given in    *)
(* order.  The salt of a password hash is drawn by the caller.             *)
(***************************************************************************)
\* _user_to_dict(user): the dictionary kept in st.session_state["user"]
\* (created_at is left out)
_user_to_dict(user) == [id |-> user.id, email |-> user.email, locale |-> user.locale]

\* largest salt os.urandom gives hash_password
MaxSalt == 1

Salts == 0..MaxSalt

\* hash_password(password): the salt and the key derived with it
hash_password(password, salt) == [salt |-> salt, key |-> password]

\* the unique constraint of users.email: a row already holds this email
EmailStored(table, email) == \E i \in 1..Len(table) : table[i].email = email

\* create_user that stores the email as it was typed
create_user_unnormalized(table, email, password, locale, salt) ==
    LET user == [id |-> Len(table) + 1, email |-> email,
                 password_hash |-> hash_password(password, salt), locale |-> locale]
    IN  IF EmailStored(table, email)
        THEN [raised |-> "ValueError", value |-> None, users |-> table]
        ELSE [raised |-> NoException, value |-> _user_to_dict(user),
              users |-> Append(table, user)]

\* create_user(email, password, locale=locale) on the users table: what it
\* raised or returned, and the table it left
create_user(table, email, password, locale, salt) ==
    LET normalized_email == LowerStr(Strip(email))
        user == [id |-> Len(table) + 1, email |-> normalized_email,
                 password_hash |-> hash_password(password, salt), locale |-> locale]
    IN  IF EmailStored(table, normalized_email)
        THEN [raised |-> "ValueError", value |-> None, users |-> table]
        ELSE [raised |-> NoException, value |-> _user_to_dict(user),
              users |-> Append(table, user)]

\* _show_invalid_credentials(message)
_show_invalid_credentials(ss, message) ==
    [ss EXCEPT !.auth_notice = <<"error", message>>]

\* the end of _process_signup(): create_user raised, or the user it returned
\* is signed in and a rerun is asked for
SignupCreated(ss, created) ==
    IF created.raised = "ValueError"
    THEN [ss |-> _show_invalid_credentials(ss, "Email deja enregistre."),
          users |-> created.users, rerun |-> FALSE]
    ELSE [ss |-> [ss EXCEPT !.user = created.value, !.user_settings = NoSettings,
                            !.auth_notice = <<"success", "Compte cree avec succes.">>],
          users |-> created.users, rerun |-> TRUE]

\* _process_signup(email, password, confirm, locale_code): the session and the
\* users table it leaves, and whether it asks for a rerun
_process_signup(ss, table, email, password, confirm, locale_code, salt) ==
    IF email = <<>> \/ password = <<>> \/ confirm = <<>>
    THEN [ss |-> _show_invalid_credentials(ss, "Merci de remplir tous les champs."),
          users |-> table, rerun |-> FALSE]
    ELSE IF "@" \notin Range(email)
    THEN [ss |-> _show_invalid_credentials(ss, "Adresse email invalide."),
          users |-> table, rerun |-> FALSE]
    ELSE IF Len(password) < 6
    THEN [ss |-> _show_invalid_credentials(ss, "Mot de passe trop court."),
          users |-> table, rerun |-> FALSE]
    ELSE IF password # confirm
    THEN [ss |-> _show_invalid_credentials(ss, "Les mots de passe ne correspondent pas."),
          users |-> table, rerun |-> FALSE]
    ELSE SignupCreated(ss, create_user(table, email, password, locale_code, salt))

\* verify_password(password, stored_hash): the key derived from the password
\* with the stored salt is the stored key
verify_password(password, stored_hash) ==
    hash_password(password, stored_hash.salt) = stored_hash

\* authenticate_user(email, password): the dictionary of the user with this
\* email, trimmed and lowercased, if the password is theirs, or None
authenticate_user(table, email, password) ==
    LET normalized_email == LowerStr(Strip(email))
        found == {i \in 1..Len(table) : table[i].email = normalized_email}
        first == CHOOSE i \in found : \A j \in found : i <= j
    IN  IF found # {} /\ verify_password(password, table[first].password_hash)
        THEN _user_to_dict(table[first])
        ELSE NoUser

\* the end of _process_login(): nobody was authenticated, or the user and
\* their stored settings are put in the session and a rerun is asked for
LoginAuthenticated(ss, user) ==
    IF user = NoUser
    THEN [ss |-> _show_invalid_credentials(ss, "Identifiants incorrects."),
          rerun |-> FALSE]
    ELSE [ss |-> [ss EXCEPT !.user = user,
                            !.user_settings = get_user_settings(user.id),
                            !.auth_notice = <<"success", "Connexion reussie. Preferences chargees.">>],
          rerun |-> TRUE]

\* _process_login(email, password): the session it leaves, and whether it asks
\* for a rerun
_process_login(ss, table, email, password) ==
    IF email = <<>> \/ password = <<>>
    THEN [ss |-> _show_invalid_credentials(ss, "Veuillez renseigner email et mot de passe."),
          rerun |-> FALSE]
    ELSE LoginAuthenticated(ss, authenticate_user(table, email, password))

\* handle_logout that leaves the settings in the session
handle_logout_keeping_settings(ss) ==
    [ss EXCEPT !.user = NoUser,
               !.auth_notice = <<"info", "Vous etes maintenant deconnecte.">>]

\* handle_logout()
handle_logout(ss) ==
    [ss EXCEPT !.user = NoUser, !.user_settings = NoSettings,
               !.auth_notice = <<"info", "Vous etes maintenant deconnecte.">>]

\* the head of the account page's main(): settings are loaded if needed and
\* the pending notice is shown
AccountRun(ss) == show_auth_notice(ensure_user_settings_loaded(ss))

(***************************************************************************)
(* The page for a signed-in user.  The user signed in on the account page, *)
(* in a browser session that had not opened the comprehension page or had  *)
(* used it anonymously, and the user_settings table holds any preference   *)
(* for them: none, an empty one, text that int() rejects, or a number      *)
(* below, within or beyond the pool.  The page is then opened and used.    *)
(***************************************************************************)
\* the end of _process_login(), and the run of the account page it asks for:
\* the user and their stored settings are put in the session
SignedIn(ss, user) ==
    show_auth_notice([ss EXCEPT !.user = _user_to_dict(user),
                                !.user_settings = get_user_settings(user.id),
                                !.auth_notice = <<"success", "Connexion reussie. Preferences chargees.">>])

\* values of the default_num_questions row of a user
StoredPreferences ==
    {None, <<>>, <<"a">>, <<"1", ".", "5">>, <<" ", "1">>, <<"9">>, <<"0">>}

\* sessions of an anonymous visitor: before any page ran, and after the
\* comprehension page was opened and its slider set
AnonymousSessions ==
    {BlankSession} \cup
    UNION {Page(opened, widgets, [kind |-> "slider", value |-> n]) :
              opened \in Page(BlankSession, widgets, [kind |-> "rerun"]),
              n \in 1..Len(get_entries(widgets.quiz))}

InitSettings ==
    /\ entries \in Databases
    /\ widgets = [quiz |-> quiz_keys[1], question_type |-> DEFAULT_QUESTION_TYPE]
    /\ users = <<[id |-> 1, email |-> <<"a", "@", "e">>,
                  password_hash |-> hash_password(<<"s", "e", "c", "r", "e", "t">>, 0),
                  locale |-> "fr"]>>
    /\ user_settings \in {<<[default_num_questions |-> value]>> :
                             value \in StoredPreferences}
    /\ session_state \in {SignedIn(anonymous, users[1]) : anonymous \in AnonymousSessions}
    /\ submission = None
    /\ call = [fn |-> "login"]
    /\ outcome = NoCall

\* the comprehension page is opened from the navigation bar, or reloaded; call
\* records the preference the session held or would load when the run began
OpenPage ==
    /\ session_state' \in Page(session_state, widgets, [kind |-> "rerun"])
    /\ call' = [fn |-> "open",
                stored |-> ensure_user_settings_loaded(session_state)
                               .user_settings.default_num_questions]
    /\ user_settings' = SavedSettings(session_state', user_settings)
    /\ UNCHANGED <<widgets, entries, submission, outcome, users>>

NextSettings ==
    \/ OpenPage
    \/ Next

SpecSettings == InitSettings /\ [][NextSettings]_vars

(***************************************************************************)
(* Accounts: create_user called with any email, and the sign-up form and   *)
(* the logout button of the account page, from an empty users table.       *)
(***************************************************************************)
\* most rows the users table is let grow to
MaxUsers == 4

\* emails typed or passed: two that differ by case and surrounding blanks,
\* another address, and text without "@"
Emails ==
    {<<"a", "@", "e">>, <<" ", "A", "@", "E">>, <<"c", "@", "e">>, <<"e">>}

\* passwords typed: one of six characters, one too short
Passwords == {<<"s", "e", "c", "r", "e", "t">>, <<"a", "1">>}

\* the keys of SUPPORTED_LOCALES
Locales == {"fr", "en"}

InitUsers ==
    /\ entries = [HSK1 |-> <<>>, HSK2 |-> <<>>]
    /\ widgets = [quiz |-> quiz_keys[1], question_type |-> DEFAULT_QUESTION_TYPE]
    /\ session_state = BlankSession
    /\ submission = None
    /\ call = NoCall
    /\ outcome = NoCall
    /\ users = <<>>
    /\ user_settings = <<>>

\* create_user(email, password) called directly, with the default locale
CallCreateUser ==
    \E email \in Emails, salt \in Salts :
        /\ Len(users) < MaxUsers
        /\ \E created \in {create_user(users, email, <<"s", "e", "c", "r", "e", "t">>,
                                       "fr", salt)} :
               /\ users' = created.users
               /\ outcome' = [raised |-> created.raised, value |-> created.value]
        /\ call' = [fn |-> "create_user", email |-> email]
        /\ UNCHANGED <<session_state, widgets, entries, submission, user_settings>>

\* the "Creer un compte" form of the account page, shown to a visitor who is
\* not signed in
SignupWith(locale_codes, salts) ==
    \E email \in Emails \cup {<<>>}, password \in Passwords, confirm \in Passwords,
       locale_code \in locale_codes, salt \in salts :
        /\ session_state.user = NoUser
        /\ Len(users) < MaxUsers
        /\ \E done \in {_process_signup(AccountRun(session_state), users, email,
                                        password, confirm, locale_code, salt)} :
               /\ users' = done.users
               /\ session_state' = IF done.rerun THEN AccountRun(done.ss) ELSE done.ss
        /\ call' = [fn |-> "signup", email |-> email,
                    valid |-> /\ "@" \in Range(email)
                              /\ Len(password) >= 6
                              /\ password = confirm]
        /\ UNCHANGED <<widgets, entries, submission, outcome, user_settings>>

Signup == SignupWith(Locales, Salts)

\* the same form with the interface language left at its first option and one
\* salt drawn
SignupDefaultLocale == SignupWith({"fr"}, {0})

\* the "Se deconnecter" button of the account page
Logout ==
    /\ session_state.user # NoUser
    /\ session_state' = AccountRun(handle_logout(AccountRun(session_state)))
    /\ call' = [fn |-> "logout"]
    /\ UNCHANGED <<widgets, entries, submission, outcome, users, user_settings>>

NextUsers ==
    \/ CallCreateUser
    \/ Signup
    \/ Logout

SpecUsers == InitUsers /\ [][NextUsers]_vars

(***************************************************************************)
(* Accounts and the page together: a visitor signs up, logs in, logs out,  *)
(* opens the comprehension page and moves its slider, in any order, from   *)
(* an empty users table and a session that has run no page.                *)
(***************************************************************************)
InitAccount ==
    /\ entries \in {database \in Databases : database[quiz_keys[2]] = <<>>}
    /\ widgets = [quiz |-> quiz_keys[1], question_type |-> DEFAULT_QUESTION_TYPE]
    /\ session_state = BlankSession
    /\ submission = None
    /\ call = NoCall
    /\ outcome = NoCall
    /\ users = <<>>
    /\ user_settings = <<>>

\* the "Se connecter" form of the account page, shown to a visitor who is not
\* signed in
Login ==
    \E email \in Emails \cup {<<>>}, password \in Passwords :
        /\ session_state.user = NoUser
        /\ \E done \in {_process_login(AccountRun(session_state), users, email, password)} :
               session_state' = IF done.rerun THEN AccountRun(done.ss) ELSE done.ss
        /\ call' = [fn |-> "login", email |-> email, password |-> password]
        /\ UNCHANGED <<widgets, entries, submission, outcome, users, user_settings>>

NextAccount ==
    \/ SignupDefaultLocale
    \/ Login
    \/ Logout
    \/ OpenPage
    \/ ChangeSlider

SpecAccount == InitAccount /\ [][NextAccount]_vars

(***************************************************************************)
(* Properties of the session under the page's interactions (Spec).         *)
(***************************************************************************)
Last(seq) == seq[Len(seq)]

\* the number of history entries judged correct
CorrectEntries(history) == Cardinality({i \in 1..Len(history) : history[i].is_correct})

\* C1: a form submission that arrives when the current question is already
\* answered (a second submit with no advance in between) is ignored: it changes
\* neither score nor history, so the history never holds more than one entry
\* per question reached.
C1_SecondSubmitIgnored ==
    /\ [](Len(session_state.history) <= session_state.current_idx + 1)
    /\ [][(call'.fn = "submit" /\ call'.answered)
              => /\ session_state'.score = session_state.score
                 /\ session_state'.history = session_state.history]_vars

\* a submission arrived for a question already answered correctly
C1_Witness ==
    /\ call.fn = "submit"
    /\ call.answered
    /\ session_state.answered
    /\ session_state.score = 1
    /\ Len(session_state.history) = 1

\* C2: from a fresh reset that built n >= 1 questions, every completed
\* submit-then-advance cycle moves current_idx up by exactly one and nothing
\* else moves it, so the session is in progress (current_idx < n) until the
\* n-th cycle and complete (current_idx = n) exactly after it; the history holds
\* one entry per submitted question, in the order of the questions, hence n
\* entries at completion.
C2_SessionProgression ==
    /\ [](/\ session_state.current_idx \in 0..Len(session_state.questions)
          /\ Len(session_state.history)
                 = session_state.current_idx + (IF session_state.answered THEN 1 ELSE 0)
          /\ \A i \in 1..Len(session_state.history) :
                 /\ session_state.history[i].hanzi = session_state.questions[i].hanzi
                 /\ session_state.history[i].correct = session_state.questions[i].correct
          /\ (session_state.current_idx = Len(session_state.questions)
                  => Len(session_state.history) = Len(session_state.questions)))
    /\ [][session_state'.current_idx # session_state.current_idx
              => \/ /\ session_state'.current_idx = 0
                    /\ session_state'.history = <<>>
                 \/ /\ session_state.answered
                    /\ ~session_state'.answered
                    /\ session_state'.current_idx = session_state.current_idx + 1
                    /\ session_state'.questions = session_state.questions
                    /\ session_state'.history = session_state.history]_vars

\* a session of two questions is complete
C2_Witness ==
    /\ Len(session_state.questions) = 2
    /\ session_state.current_idx = 2
    /\ Len(session_state.history) = 2

\* C3: score is the number of history entries judged correct; a submission adds
\* one entry and adds 1 to score exactly when that entry is judged correct; so
\* 0 <= score <= len(history) <= len(questions).
C3_ScoreCountsCorrect ==
    /\ [](/\ session_state.score = CorrectEntries(session_state.history)
          /\ 0 <= session_state.score
          /\ session_state.score <= Len(session_state.history)
          /\ Len(session_state.history) <= Len(session_state.questions))
    /\ [][(session_state'.history # session_state.history /\ session_state'.history # <<>>)
              => /\ Len(session_state'.history) = Len(session_state.history) + 1
                 /\ session_state'.score = session_state.score
                        + (IF Last(session_state'.history).is_correct THEN 1 ELSE 0)]_vars

\* one answer judged correct and one judged incorrect
C3_Witness ==
    /\ Len(session_state.history) = 2
    /\ session_state.score = 1

(***************************************************************************)
(* Properties of evaluate_answer (SpecEval).                               *)
(***************************************************************************)
\* evaluate_answer has just been called with submission
Evaluated == call.fn = "evaluate_answer"

\* the question it was called for, and its verdict
CurrentQuestion == session_state.questions[session_state.current_idx + 1]

Judged == Last(session_state.history).is_correct

McqTypes == {"translation_to_hanzi_mcq", "hanzi_to_translation_mcq"}

\* the submission as a string: None stands for no text
Text(sub) == IF sub = None THEN <<>> ELSE sub

\* C4: every question built in a multiple-choice mode has its correct value
\* among its choices; submitting that value is judged correct and submitting
\* any other of the choices is judged incorrect.
C4_McqCorrectness ==
    /\ \A i \in 1..Len(session_state.questions) :
           session_state.questions[i].type \in McqTypes
               => session_state.questions[i].correct
                      \in Range(session_state.questions[i].choices)
    /\ (Evaluated /\ CurrentQuestion.type \in McqTypes
               /\ submission \in Range(CurrentQuestion.choices))
           => (Judged <=> submission = CurrentQuestion.correct)

\* a wrong choice of a multiple-choice question was submitted
C4_Witness ==
    /\ Evaluated
    /\ CurrentQuestion.type \in McqTypes
    /\ submission \in Range(CurrentQuestion.choices)
    /\ submission # CurrentQuestion.correct
    /\ ~Judged

\* the primary translation and the synonyms resolved from alt_translations
Synonyms(question) ==
    {question.translation} \cup Range(split_alt_translations(question.alt_translations))

Aimer == <<"a", "i", "m", "e", "r">>

\* the question of the entry "aimer" with alternates "apprecier; adorer"
AimerQuestion ==
    /\ CurrentQuestion.translation = Aimer
    /\ CurrentQuestion.alt_translations = EvalVocabulary[1].alt_translations

\* the examples of the translation rule
TranslationExamples ==
    (Evaluated /\ CurrentQuestion.type = "hanzi_to_translation_input" /\ AimerQuestion)
        => /\ submission \in {<<"A", "i", "m", "e", "r">>,
                              <<"A", "I", "M", "E", "R", " ">>,
                              <<"a", "p", "p", "r", "e_acute", "c", "i", "e", "r">>,
                              <<"a", "d", "o", "r", "e", "r">>} => Judged
           /\ submission = <<"d", "e", "t", "e", "s", "t", "e", "r">> => ~Judged

\* C5 as stated: in the free-text translation mode a submission is judged
\* correct iff it is non-empty and its normalized form equals the normalized
\* form of the primary translation or of a synonym.
C5_AsStated ==
    (Evaluated /\ CurrentQuestion.type = "hanzi_to_translation_input")
        => (Judged <=> /\ Strip(Text(submission)) # <<>>
                       /\ \E a \in Synonyms(CurrentQuestion) :
                              normalize_text_answer(Text(submission))
                                  = normalize_text_answer(a))

\* C5 amended: in the free-text translation mode a submission is judged correct
\* iff its normalized form is non-empty and equals the normalized form of the
\* primary translation or of a synonym resolved from alt_translations; for
\* "aimer" with alternates "apprecier; adorer" the submissions "Aimer",
\* "AIMER ", "appr(e-acute)cier" and "adorer" are correct, "detester" is not.
C5_SynonymMatching ==
    /\ (Evaluated /\ CurrentQuestion.type = "hanzi_to_translation_input")
           => (Judged <=> /\ normalize_text_answer(Text(submission)) # <<>>
                          /\ \E a \in Synonyms(CurrentQuestion) :
                                 normalize_text_answer(Text(submission))
                                     = normalize_text_answer(a))
    /\ TranslationExamples

\* the accented synonym was submitted for "aimer" and judged correct
C5_Witness ==
    /\ Evaluated
    /\ CurrentQuestion.type = "hanzi_to_translation_input"
    /\ AimerQuestion
    /\ submission = <<"a", "p", "p", "r", "e_acute", "c", "i", "e", "r">>
    /\ Judged

\* the canonical tuples of the submission and of the question's pinyin match
\* under the variant in force
TuplesMatch ==
    IF session_state.pinyin_variant = "without_tones"
    THEN strip_pinyin_tones(normalize_pinyin_value(Text(submission)))
             = strip_pinyin_tones(normalize_pinyin_value(CurrentQuestion.pinyin))
    ELSE normalize_pinyin_value(Text(submission))
             = normalize_pinyin_value(CurrentQuestion.pinyin)

\* the examples of the pinyin rule, for the question whose pinyin is
\* n(i-caron) h(a-caron)o, i.e. <<("ni", 3), ("hao", 3)>>
PinyinExamples ==
    (Evaluated /\ CurrentQuestion.type = "hanzi_to_pinyin_input"
               /\ CurrentQuestion.pinyin = EvalVocabulary[1].pinyin)
        => /\ CurrentQuestion.normalized_pinyin
                  = <<<<<<"n", "i">>, 3>>, <<<<"h", "a", "o">>, 3>>>>
           /\ submission \in {<<"n", "i", "3", " ", "h", "a", "o", "3">>,
                              <<"n", "i_caron", " ", "h", "a_caron", "o">>} => Judged
           /\ submission = <<"n", "i", " ", "h", "a", "o">>
                  => (Judged <=> session_state.pinyin_variant = "without_tones")
           /\ submission = <<"n", "i_grave", " ", "h", "a_caron", "o">>
                  => (Judged <=> session_state.pinyin_variant = "without_tones")

\* C6 as stated: in the pinyin mode a submission is judged correct iff it is
\* non-empty and its canonical tuple equals the question's, with tones under
\* the tone-sensitive variant and without them under the tone-insensitive one.
C6_AsStated ==
    (Evaluated /\ CurrentQuestion.type = "hanzi_to_pinyin_input")
        => (Judged <=> Strip(Text(submission)) # <<>> /\ TuplesMatch)

\* C6 amended: in the pinyin mode a submission is judged correct iff its
\* canonical tuple is non-empty and equals the question's, with tones under the
\* tone-sensitive variant ("ni3 hao3" equals the diacritic form and both differ
\* from "ni hao") and without them under the tone-insensitive one ("ni3 hao3",
\* "ni hao" and the wrongly toned form all match).
C6_PinyinMatching ==
    /\ (Evaluated /\ CurrentQuestion.type = "hanzi_to_pinyin_input")
           => (Judged <=> normalize_pinyin_value(Text(submission)) # <<>> /\ TuplesMatch)
    /\ PinyinExamples

\* the unmarked form was submitted under the tone-insensitive variant and
\* judged correct
C6_Witness ==
    /\ Evaluated
    /\ CurrentQuestion.type = "hanzi_to_pinyin_input"
    /\ session_state.pinyin_variant = "without_tones"
    /\ CurrentQuestion.pinyin = EvalVocabulary[1].pinyin
    /\ submission = <<"n", "i", " ", "h", "a", "o">>
    /\ Judged

\* C7: evaluate_answer with an empty, missing or whitespace-only submission, in
\* any of the four modes, sets answered, appends one history entry judged
\* incorrect and leaves score unchanged.
C7_BlankIsIncorrect ==
    [][(call'.fn = "evaluate_answer" /\ Strip(Text(submission')) = <<>>)
           => /\ session_state'.answered
              /\ session_state'.history
                     = Append(session_state.history, Last(session_state'.history))
              /\ ~Last(session_state'.history).is_correct
              /\ session_state'.score = session_state.score]_vars

\* a missing submission was judged incorrect although the empty string is
\* among the question's accepted normalized translations
C7_Witness ==
    /\ Evaluated
    /\ submission = None
    /\ CurrentQuestion.type = "hanzi_to_translation_input"
    /\ <<>> \in CurrentQuestion.accepted_translations
    /\ session_state.answered
    /\ ~Judged

(***************************************************************************)
(* Properties of build_question_pool and reset_quiz (SpecBuild).           *)
(***************************************************************************)
\* the call on record has returned or raised
Called == outcome # NoCall

BuildCalled == Called /\ call.fn = "build_question_pool"

ResetCalled == Called /\ call.fn = "reset_quiz"

\* C8: for a count >= 0 and one of the four question types, build_question_pool
\* returns min(count, |pool|) questions without raising: |pool| questions when
\* count > |pool|, none when the pool is empty; reset_quiz stores as many.
C8_Clamping ==
    /\ (BuildCalled /\ call.num_questions >= 0 /\ call.question_type \in QuestionTypes)
           => /\ outcome.raised = NoException
              /\ Len(outcome.value) = IF call.num_questions > Len(call.vocab)
                                      THEN Len(call.vocab) ELSE call.num_questions
    /\ (ResetCalled /\ call.num_questions >= 0)
           => /\ outcome.raised = NoException
              /\ Len(session_state.questions)
                     = IF call.num_questions > Len(get_entries(call.quiz_key))
                       THEN Len(get_entries(call.quiz_key)) ELSE call.num_questions

\* more questions were asked for than the pool holds and the pool's size came back
C8_Witness ==
    /\ BuildCalled
    /\ call.question_type \in QuestionTypes
    /\ Len(call.vocab) = 2
    /\ call.num_questions > 2
    /\ outcome.raised = NoException
    /\ Len(outcome.value) = 2

\* C9: a count <= 0 is not an error: build_question_pool returns an empty list
\* and reset_quiz leaves an empty question list, and neither raises.
C9_NonPositiveCountClamped ==
    /\ (BuildCalled /\ call.num_questions <= 0 /\ call.question_type \in QuestionTypes)
           => outcome.raised = NoException /\ outcome.value = <<>>
    /\ (ResetCalled /\ call.num_questions <= 0)
           => outcome.raised = NoException /\ session_state.questions = <<>>

\* C10: build_question_pool called with a question type outside the four raises
\* ValueError and returns no list, whatever the pool and the count.
C10_UnsupportedTypeRaises ==
    (BuildCalled /\ call.question_type \notin QuestionTypes)
        => outcome.raised = "ValueError"

\* the pool entry a question was built from
EntryOf(question) ==
    Entry(question.hanzi, question.pinyin, question.translation,
          question.alt_translations)

\* <<1, ..., n>>
RECURSIVE Positions(_)
Positions(n) == IF n = 0 THEN <<>> ELSE Append(Positions(n - 1), n)

\* the positions rng.sample draws from a pool of n entries for k questions
SelectedPositions(n, k, seed) == RngSample(Positions(n), k, Random(seed)).value

\* questions are built, in order, from the pool entries at pairwise distinct
\* positions
FromDistinctPositions(questions, vocab, positions) ==
    /\ Len(positions) = Len(questions)
    /\ \A i \in 1..Len(positions) : positions[i] \in 1..Len(vocab)
    /\ \A i, j \in 1..Len(positions) : i # j => positions[i] # positions[j]
    /\ \A i \in 1..Len(questions) : EntryOf(questions[i]) = vocab[positions[i]]

\* C11: the entries selected in one build_question_pool call sit at pairwise
\* distinct positions of the pool: no position is drawn twice, so the questions
\* returned (and those reset_quiz stores) come from len(questions) different
\* pool entries.
C11_DistinctSelection ==
    /\ (BuildCalled /\ outcome.raised = NoException)
           => \E stream \in RandomStreams(call.seed) :
                  FromDistinctPositions(
                      outcome.value, call.vocab,
                      SelectedPositions(Len(call.vocab),
                                        Min(call.num_questions, Len(call.vocab)), stream))
    /\ (ResetCalled /\ outcome.raised = NoException /\ get_entries(call.quiz_key) # <<>>)
           => \E stream \in RandomStreams(call.seed) :
                  FromDistinctPositions(
                      session_state.questions, get_entries(call.quiz_key),
                      SelectedPositions(Len(get_entries(call.quiz_key)),
                                        Min(call.num_questions,
                                            Len(get_entries(call.quiz_key))), stream))

\* three questions were built from a pool of three entries, one from each
C11_Witness ==
    /\ BuildCalled
    /\ outcome.raised = NoException
    /\ Len(call.vocab) = 3
    /\ Len(outcome.value) = 3
    /\ {outcome.value[i].hanzi : i \in 1..3} = {call.vocab[i].hanzi : i \in 1..3}

\* the same build_question_pool call has been made twice
BuiltTwice == BuildCalled /\ "again" \in DOMAIN outcome

TargetValues(vocab, question_type) ==
    IF question_type = "translation_to_hanzi_mcq"
    THEN [i \in 1..Len(vocab) |-> vocab[i].hanzi]
    ELSE [i \in 1..Len(vocab) |-> vocab[i].translation]

\* how many elements of seq are v
Count(seq, v) == Cardinality({i \in 1..Len(seq) : seq[i] = v})

\* a multiple-choice build has returned its questions
McqBuilt == BuildCalled /\ outcome.raised = NoException /\ call.question_type \in McqTypes

\* C20 as stated: every multiple-choice question has min(num_choices, |pool|)
\* choices, whatever the pool.
C20_AsStated ==
    McqBuilt
        => \A i \in 1..Len(outcome.value) :
               Len(outcome.value[i].choices) = Min(call.num_choices, Len(call.vocab))

\* C20 amended: for num_choices >= 1, the choices of a multiple-choice question
\* are the correct value, once, and min(num_choices - 1, m) distractors, m
\* being the number of pool entries whose target value differs from the
\* correct one; each distractor is the target value of one such entry, no entry
\* used twice; so len(choices) = min(num_choices, m + 1), which is
\* min(num_choices, |pool|) exactly when no other entry shares the correct
\* value or num_choices <= m + 1.
C20_ChoiceCount ==
    McqBuilt
        => \A i \in 1..Len(outcome.value) :
               \E choices \in {outcome.value[i].choices},
                  correct \in {outcome.value[i].correct},
                  targets \in {TargetValues(call.vocab, call.question_type)} :
                   \E m \in {Len(targets) - Count(targets, correct)} :
                       /\ Len(choices) = Min(call.num_choices - 1, m) + 1
                       /\ Len(choices) = Min(call.num_choices, m + 1)
                       /\ Count(choices, correct) = 1
                       /\ \A v \in Range(choices) : Count(choices, v) <= Count(targets, v)
                       /\ (Count(targets, correct) = 1 \/ call.num_choices <= m + 1)
                              <=> Len(choices) = Min(call.num_choices, Len(targets))

\* in a pool of three entries two of which share the translation, a question
\* about one of the two was built with four choices asked for and has two
C20_Witness ==
    /\ McqBuilt
    /\ call.question_type = "hanzi_to_translation_mcq"
    /\ call.num_choices = DefaultNumChoices
    /\ Len(call.vocab) = 3
    /\ \E i \in 1..Len(outcome.value) :
           /\ outcome.value[i].correct = Vocabulary[1].translation
           /\ Len(outcome.value[i].choices) = 2

(***************************************************************************)
(* Properties of the session's life cycle under the page (Spec).           *)
(***************************************************************************)
\* the run on record called reset_quiz
ResetRun == call.fn = "reset_quiz"

\* C13: reset_quiz, called by the page in any phase of the session (fresh,
\* mid-question, answered or complete) and for either pool, leaves
\* current_idx = 0, score = 0, answered = false and an empty history.
C13_ResetClearsSession ==
    ResetRun => /\ session_state.current_idx = 0
                /\ session_state.score = 0
                /\ ~session_state.answered
                /\ session_state.history = <<>>

\* a complete session was reset
C13_Witness ==
    /\ ResetRun
    /\ call.phase = "complete"
    /\ session_state.questions # <<>>
    /\ session_state.current_idx = 0
    /\ session_state.history = <<>>

\* the quiz session proper: what submit, advance and reset act on
Progress(ss) == <<ss.questions, ss.current_idx, ss.score, ss.history, ss.answered>>

\* C14: once the session is complete (current_idx = len(questions)), no form
\* submission and no "Question suivante" press can occur, and questions,
\* current_idx, score and history stay as they are in every step that is not a
\* reset_quiz call: only a reset leaves the complete state.
C14_CompleteUntilReset ==
    [][SessionPhase(session_state) = "complete"
           => /\ call'.fn \notin {"submit", "next"}
              /\ \/ call'.fn = "reset_quiz"
                 \/ /\ Progress(session_state') = Progress(session_state)
                    /\ SessionPhase(session_state') = "complete"]_vars

\* the slider was moved on the summary of a complete session, which stayed
\* complete with its score and history
C14_Witness ==
    /\ SessionPhase(session_state) = "complete"
    /\ call = NoCall
    /\ session_state.num_questions # Len(session_state.questions)
    /\ Len(session_state.history) = 2
    /\ session_state.score = 1

\* C15: a "Question suivante" press acts only on an answered question: it
\* adds exactly 1 to current_idx and clears answered, and does nothing
\* otherwise; nothing but that press raises current_idx and, between two
\* resets, current_idx never decreases.
C15_AdvanceOnlyWhenAnswered ==
    /\ [][call'.fn = "next"
              => IF session_state.answered
                 THEN /\ session_state'.current_idx = session_state.current_idx + 1
                      /\ ~session_state'.answered
                 ELSE Progress(session_state') = Progress(session_state)]_vars
    /\ [][call'.fn # "reset_quiz"
              => /\ session_state'.current_idx >= session_state.current_idx
                 /\ session_state'.current_idx > session_state.current_idx
                        => /\ call'.fn = "next"
                           /\ session_state.answered
                           /\ session_state'.current_idx
                                  = session_state.current_idx + 1]_vars

\* the first of two questions was answered and left for the second
C15_Witness ==
    /\ call.fn = "next"
    /\ call.answered
    /\ Len(session_state.questions) = 2
    /\ session_state.current_idx = 1
    /\ ~session_state.answered

\* earlier is a prefix of later
IsPrefix(earlier, later) ==
    /\ Len(earlier) <= Len(later)
    /\ SubSeq(later, 1, Len(earlier)) = earlier

\* C16: between two resets the question list stays as built and history only
\* grows at its end: an accepted form submission appends exactly one entry and
\* leaves the earlier ones as they are, a submission not accepted leaves history
\* unchanged, and "Question suivante" leaves history and score unchanged.
C16_HistoryAppendOnly ==
    /\ [][call'.fn # "reset_quiz"
              => /\ session_state'.questions = session_state.questions
                 /\ IsPrefix(session_state.history, session_state'.history)]_vars
    /\ [][call'.fn = "submit"
              => IF ~session_state.answered /\ session_state'.answered
                 THEN session_state'.history
                          = Append(session_state.history, Last(session_state'.history))
                 ELSE session_state'.history = session_state.history]_vars
    /\ [][call'.fn = "next"
              => /\ session_state'.history = session_state.history
                 /\ session_state'.score = session_state.score]_vars

\* the second question was answered: its entry follows the first one's
C16_Witness ==
    /\ call.fn = "submit"
    /\ ~call.answered
    /\ session_state.answered
    /\ session_state.current_idx = 1
    /\ Len(session_state.history) = 2
    /\ session_state.history[1].hanzi = session_state.questions[1].hanzi

(***************************************************************************)
(* Properties of normalize_text_answer (SpecText).                         *)
(***************************************************************************)
\* normalize_text_answer was applied to a string and then to its own result
NormalizedTwice ==
    /\ call.fn = "normalize_text_answer"
    /\ "again" \in DOMAIN outcome

\* C17: normalize_text_answer is idempotent: applied to its own result it
\* returns that result.
C17_NormalizeIdempotent ==
    NormalizedTwice => outcome.again = outcome.value

\* "(E-acute)-1" became "e 1", and "e 1" stayed "e 1"
C17_Witness ==
    /\ NormalizedTwice
    /\ call.value = <<"E_acute", "-", "1">>
    /\ outcome.value = <<"e", " ", "1">>
    /\ outcome.again = <<"e", " ", "1">>

(***************************************************************************)
(* Properties of the default question count (SpecSettings).                *)
(***************************************************************************)
\* the session a run of main() starting now has when it computes default_num
Configured == show_auth_notice(ensure_user_settings_loaded(session_state))

\* int() rejects the stored preference
NonNumeric(stored) == Truthy(stored) /\ ParseInt(stored).raised = "ValueError"

\* the in-memory count, clamped to the pool the page shows
PreviousCount(ss, w) == Max(1, Min(ss.num_questions, Len(entries[w.quiz])))

\* C18, in every state: computing the default count for the pool on the page
\* raises nothing, gives a count within 1..|pool|, and gives the clamped
\* in-memory count when the stored preference is not a number
DefaultNumWithinPool ==
    QuizShown =>
        \E default \in {default_num(Configured, Len(get_entries(widgets.quiz)))} :
            /\ default.raised = NoException
            /\ default.value \in 1..Len(get_entries(widgets.quiz))
            /\ NonNumeric(Configured.user_settings.default_num_questions)
                   => default.value = PreviousCount(session_state, widgets)

\* C18, for a run that opens the page with a non-numeric preference stored:
\* the run ends with the clamped in-memory count as the session's count and
\* as the stored preference
OpenFallsBack ==
    (call'.fn = "open" /\ NonNumeric(call'.stored) /\ QuizShown')
        => /\ session_state'.num_questions = PreviousCount(session_state, widgets')
           /\ user_settings'[session_state'.user.id].default_num_questions
                  = StrInt(session_state'.num_questions)

\* C18: a stored default-question-count preference that is not a number
\* never makes the page fail: it is ignored, the default falls back to the
\* previous in-memory count, and the default offered is within 1..|pool|
C18_StoredDefaultHarmless == []DefaultNumWithinPool /\ [][OpenFallsBack]_vars

\* the page was opened with the preference "1.5" stored, after the visitor had
\* set the slider to 1 on a pool of two: the count is 1 and "1" is stored
C18_Witness ==
    /\ call.fn = "open"
    /\ call.stored = <<"1", ".", "5">>
    /\ Len(get_entries(widgets.quiz)) = PoolSize
    /\ session_state.num_questions = 1
    /\ session_state.questions # <<>>
    /\ user_settings[1].default_num_questions = <<"1">>

(***************************************************************************)
(* Properties of the users table (SpecUsers).                              *)
(***************************************************************************)
\* an email after trimming and lowercasing
NormalizedEmail(email) == LowerStr(Strip(email))

\* a stored user has this email once it is trimmed and lowercased
Registered(email) ==
    \E i \in 1..Len(users) : users[i].email = NormalizedEmail(email)

\* C19, create_user: called with an email that a stored user has, it raises
\* ValueError and leaves the users table as it was
DuplicateRejected ==
    (call'.fn = "create_user" /\ Registered(call'.email))
        => outcome'.raised = "ValueError" /\ users' = users

\* C19, the sign-up form: a valid form with an email that a stored user has
\* adds no user, signs nobody in and leaves the error notice
DuplicateSignupRejected ==
    (call'.fn = "signup" /\ call'.valid /\ Registered(call'.email))
        => /\ users' = users
           /\ session_state'.user = NoUser
           /\ session_state'.auth_notice = <<"error", "Email deja enregistre.">>

\* C19, in every state: no two stored users have the same normalized email
DistinctEmails ==
    \A i, j \in 1..Len(users) :
        i # j => NormalizedEmail(users[i].email) # NormalizedEmail(users[j].email)

\* C19: create_user with an email that, trimmed and lowercased, is the email
\* of a stored user raises ValueError and leaves the stored users unchanged;
\* after any sequence of create_user calls no two stored users share a
\* normalized email
C19_UniqueNormalizedEmail ==
    /\ []DistinctEmails
    /\ [][DuplicateRejected /\ DuplicateSignupRejected]_vars

\* " A@E" was refused while "a@e" and "c@e" were stored
C19_Witness ==
    /\ call = [fn |-> "create_user", email |-> <<" ", "A", "@", "E">>]
    /\ outcome.raised = "ValueError"
    /\ Len(users) = 2
    /\ users[1].email = <<"a", "@", "e">>
    /\ users[2].email = <<"c", "@", "e">>

(***************************************************************************)
(* Properties of the choices of a multiple-choice question (SpecBuild).    *)
(***************************************************************************)
\* C21: the values offered in one multiple-choice question are pairwise
\* distinct, for any pool, including pools where two entries have the same
\* script or the same translation.
C21_DistinctChoices ==
    McqBuilt
        => \A i \in 1..Len(outcome.value) :
               \A v \in Range(outcome.value[i].choices) :
                   Count(outcome.value[i].choices, v) = 1

(***************************************************************************)
(* Properties of split_alt_translations (SpecSynonyms).                    *)
(***************************************************************************)
\* split_alt_translations has returned
SplitCalled == call.fn = "split_alt_translations" /\ outcome # NoCall

\* C22: every string the synonym resolver returns is non-empty, has no
\* leading or trailing whitespace or slash, and does not begin, whatever the
\* case, with "cl:"; an empty field yields the empty list.
C22_CleanSynonyms ==
    SplitCalled
        => /\ \A i \in 1..Len(outcome.value) :
                  \E part \in {outcome.value[i]} :
                      /\ part # <<>>
                      /\ Head(part) \notin Whitespace \cup {"/"}
                      /\ part[Len(part)] \notin Whitespace \cup {"/"}
                      /\ ~StartsWithCl(part)
           /\ call.value = <<>> => outcome.value = <<>>

(***************************************************************************)
(* Properties of normalize_pinyin_value (SpecPinyin).                      *)
(***************************************************************************)
\* normalize_pinyin_value has returned or raised
PinyinCalled == call.fn = "normalize_pinyin_value" /\ outcome # NoCall

\* the characters that carry a tone: a digit 1-4, or a toned vowel
ToneCarriers == {"1", "2", "3", "4"} \cup DOMAIN PINYIN_DIACRITIC_MAP

\* value is one run of letters followed by a digit 1-4
EndsInToneDigit(value) ==
    /\ Len(value) >= 2
    /\ value[Len(value)] \in {"1", "2", "3", "4"}
    /\ \A i \in 1..(Len(value) - 1) : value[i] \in PinyinLetters

\* C23: for any input string the phonetic normalizer returns, without error,
\* a tuple of pairs whose base is non-empty and whose tone is in 0..4; a
\* trailing digit 1-4 sets the tone even when the token has a toned vowel,
\* the tone is 0 when there is neither a digit 1-4 nor a toned vowel, and
\* empty or non-matching input yields the empty tuple.
C23_PhoneticTuples ==
    PinyinCalled
        => /\ outcome.raised = NoException
           /\ \A i \in 1..Len(outcome.value) :
                  /\ Len(outcome.value[i]) = 2
                  /\ outcome.value[i][1] # <<>>
                  /\ outcome.value[i][2] \in 0..4
                  /\ Range(call.value) \cap ToneCarriers = {} => outcome.value[i][2] = 0
           /\ EndsInToneDigit(call.value)
                  => /\ Len(outcome.value) = 1
                     /\ outcome.value[1][2] = DigitValue(call.value[Len(call.value)])
           /\ Range(call.value) \cap PinyinLetters = {} => outcome.value = <<>>

\* "l(u-diaeresis-grave)1", a toned vowel of tone 4 before the digit 1, gave
\* (("lv", 1))
C23_Witness ==
    /\ PinyinCalled
    /\ call.value = <<"l", "u_uml_grave", "1">>
    /\ outcome.value = <<<<<<"l", "v">>, 1>>>>

\* the four spellings of "lü4" of the claim: u-diaeresis and the digit, "v"
\* and the digit, the toned vowel, and the digraph "u:" and the digit
LvSpellings ==
    {<<"l", "u_uml", "4">>, <<"l", "v", "4">>, <<"l", "u_uml_grave">>,
     <<"l", "u", ":", "4">>}

\* C24: the special vowel written as u-diaeresis, as a toned form of it, as
\* "v" or as the digraph "u:" is tokenized as part of its syllable and mapped
\* to the base letter "v": "lü4", "lv4", "lǜ" and "lu:4" all normalize to
\* (("lv", 4)).
C24_SpecialVowelSpellings ==
    (PinyinCalled /\ call.value \in LvSpellings)
        => outcome.value = <<<<<<"l", "v">>, 4>>>>

(***************************************************************************)
(* Properties of the session's bookkeeping under the page (Spec).          *)
(***************************************************************************)
\* C25: in every state the page's actions reach, len(history) is
\* current_idx + (1 if answered else 0), and the i-th history entry records
\* the script and the mode of the i-th question.
C25_HistoryTracksQuestions ==
    /\ Len(session_state.history)
           = session_state.current_idx + (IF session_state.answered THEN 1 ELSE 0)
    /\ Len(session_state.history) <= Len(session_state.questions)
    /\ \A i \in 1..Len(session_state.history) :
           /\ session_state.history[i].hanzi = session_state.questions[i].hanzi
           /\ session_state.history[i].question_type = session_state.questions[i].type

\* the second of two questions was answered: two history entries, one per
\* question, for two different characters
C25_Witness ==
    /\ session_state.answered
    /\ session_state.current_idx = 1
    /\ Len(session_state.history) = 2
    /\ Len(session_state.questions) = 2
    /\ session_state.history[2].hanzi = session_state.questions[2].hanzi
    /\ session_state.history[2].hanzi # session_state.history[1].hanzi

\* a run of main() on the state as it stands gets to render_quiz, which reads
\* questions[current_idx] and divides by len(questions)
RendersQuiz == QuizShown /\ Dispatch(session_state) = "quiz"

\* C26: whenever evaluate_answer or render_quiz reads questions[current_idx],
\* 0 <= current_idx < len(questions): no sequence of page actions leads to a
\* question access out of range or to a progress computed over a total of
\* zero.  An answered question, which evaluate_answer has read, is in range too.
C26_IndexInRange ==
    /\ 0 <= session_state.current_idx
    /\ session_state.current_idx <= Len(session_state.questions)
    /\ RendersQuiz
           => /\ session_state.current_idx < Len(session_state.questions)
              /\ Len(session_state.questions) > 0
    /\ session_state.answered
           => session_state.current_idx < Len(session_state.questions)

\* "Question suivante" was pressed on the last question: the index is the
\* number of questions and the run renders the summary, not a question
C26_Witness ==
    /\ call.fn = "next"
    /\ QuizShown
    /\ Len(session_state.questions) = PoolSize
    /\ session_state.current_idx = Len(session_state.questions)
    /\ Dispatch(session_state) = "summary"

\* a run of main() on the state as it stands renders the summary
SummaryShown == QuizShown /\ Dispatch(session_state) = "summary"

\* C27: the question count of a session is fixed when it is built: whenever
\* the summary is shown, the total it reports is len(questions) of the
\* session just completed, and the score is at most that total, even if the
\* slider was moved while the session was in progress.
C27_SummaryTotal ==
    SummaryShown
        => /\ SummaryTotal(session_state) = Len(session_state.questions)
           /\ session_state.score <= SummaryTotal(session_state)

(***************************************************************************)
(* Properties of the session against the configuration widgets (Spec).     *)
(***************************************************************************)
\* C28, in every state that shows the quiz: the session was built for the
\* selected quiz and question type, and each of its questions has that type
BuiltAsSelected ==
    QuizShown
        => /\ session_state.selected_quiz = widgets.quiz
           /\ session_state.question_type = widgets.question_type
           /\ \A i \in 1..Len(session_state.questions) :
                  session_state.questions[i].type = widgets.question_type

\* C28, for a run whose selected quiz or question type differs from the one
\* the session was built with, on a pool that is not empty: the run leaves a
\* fresh session, its questions built from the selected pool in the selected
\* mode
ResetOnChange ==
    (/\ QuizShown'
     /\ \/ session_state.selected_quiz # widgets'.quiz
        \/ PreviousQuestionType(session_state) # widgets'.question_type)
        => /\ session_state'.current_idx = 0
           /\ session_state'.score = 0
           /\ session_state'.history = <<>>
           /\ ~session_state'.answered
           /\ session_state'.selected_quiz = widgets'.quiz
           /\ session_state'.questions # <<>>
           /\ \A i \in 1..Len(session_state'.questions) :
                  /\ session_state'.questions[i].type = widgets'.question_type
                  /\ \E j \in 1..Len(entries[widgets'.quiz]) :
                         session_state'.questions[i].hanzi = entries[widgets'.quiz][j].hanzi

\* C28, for a run in which only the slider was moved: the session's
\* questions, score, history and position are as they were
SliderKeepsSession ==
    (/\ call' = NoCall
     /\ widgets' = widgets
     /\ session_state'.num_questions # session_state.num_questions)
        => /\ session_state'.questions = session_state.questions
           /\ session_state'.score = session_state.score
           /\ session_state'.history = session_state.history
           /\ session_state'.current_idx = session_state.current_idx
           /\ session_state'.answered = session_state.answered

\* C28: whenever the selected quiz or the question type differs from the one
\* the session was built with, the session is reset before any question is
\* rendered or answered, so every question of an active session has the
\* selected mode; moving only the slider never resets or alters a session in
\* progress.
C28_ResetOnModeChange == []BuiltAsSelected /\ [][ResetOnChange /\ SliderKeepsSession]_vars

\* the question type was changed to the pinyin input while the second
\* question was on the page: the session is fresh and asks for pinyin
C28_Witness ==
    /\ call = [fn |-> "reset_quiz", phase |-> "mid-question"]
    /\ widgets.question_type = "hanzi_to_pinyin_input"
    /\ session_state.question_type = "hanzi_to_pinyin_input"
    /\ session_state.current_idx = 0
    /\ session_state.history = <<>>
    /\ session_state.questions # <<>>
    /\ \A i \in 1..Len(session_state.questions) :
           session_state.questions[i].type = "hanzi_to_pinyin_input"


(***************************************************************************)
(* Properties of the signed-in user and their preferences (SpecAccount).   *)
(***************************************************************************)
\* C29, in every state: with nobody signed in, the settings in the session
\* are empty
AnonymousHasNoSettings ==
    session_state.user = NoUser => session_state.user_settings = NoSettings

\* a stored user has this email, once trimmed and lowercased, and this password
Credentials(email, password) ==
    \E i \in 1..Len(users) :
        /\ users[i].email = NormalizedEmail(email)
        /\ users[i].password_hash.key = password

\* the login form was submitted with an empty field or with credentials that
\* no stored user has
FailedLogin ==
    /\ call'.fn = "login"
    /\ \/ call'.email = <<>>
       \/ call'.password = <<>>
       \/ ~Credentials(call'.email, call'.password)

\* the sign-up form was submitted with an invalid field or with the email of a
\* stored user
FailedSignup ==
    /\ call'.fn = "signup"
    /\ ~call'.valid \/ Registered(call'.email)

\* C29, login and sign-up: a failed one leaves the session's user and
\* settings as they were
FailureKeepsUser ==
    (FailedLogin \/ FailedSignup)
        => /\ session_state'.user = session_state.user
           /\ session_state'.user_settings = session_state.user_settings
           /\ users' = users
           /\ user_settings' = user_settings

\* C29, the preference store: a step that changes it is taken with a user
\* signed in, and changes the row of that user's id only
StoreWrittenForUser ==
    user_settings' # user_settings
        => /\ session_state.user # NoUser
           /\ session_state'.user = session_state.user
           /\ DOMAIN user_settings' = DOMAIN user_settings \cup {session_state.user.id}
           /\ \A user_id \in DOMAIN user_settings :
                  user_id # session_state.user.id
                      => user_settings'[user_id] = user_settings[user_id]

\* C29: through login, sign-up, logout and page renders, the settings in the
\* session are empty whenever no user is signed in, a failed login or a failed
\* sign-up leaves the user and settings of the session unchanged, and the
\* preference store is written only while a user is signed in and only for
\* that user's id.
C29_SettingsFollowUser ==
    /\ []AnonymousHasNoSettings
    /\ [][FailureKeepsUser /\ StoreWrittenForUser]_vars

\* a login with the wrong password for a stored email was refused, after the
\* preference of one user was stored and that user signed out
C29_Witness ==
    /\ call.fn = "login"
    /\ call.password # <<>>
    /\ Registered(call.email)
    /\ ~(\E i \in 1..Len(users) :
            /\ users[i].email = NormalizedEmail(call.email)
            /\ users[i].password_hash.key = call.password)
    /\ session_state.user = NoUser
    /\ session_state.user_settings = NoSettings
    /\ DOMAIN user_settings # {}


(***************************************************************************)
(* Properties of the structured form against the normalizer (SpecPinyin).  *)
(***************************************************************************)
\* C30: for any tuple T that normalize_pinyin_value produces, the structured
\* form filled in with each base of T and its tone gives, through
\* build_structured_pinyin_submission, a string that normalizes to T with
\* missing false, and evaluate_answer scores it correct.
C30_StructuredRoundTrip ==
    call.fn = "structured"
        => /\ normalize_pinyin_value(outcome.value) = call.tokens
           /\ ~outcome.missing
           /\ outcome.is_correct

=============================================================================
